---- MODULE Spec2Model ----
(***************************************************************************)
(* A model of the device-management backend of this repository.            *)
(*                                                                         *)
(*   src/main.py          the SQLite variant (FastAPI): devices, commands  *)
(*   src/gunicorn.conf.py several worker processes share the one database  *)
(*   src/server.py        the JSON-file variant (Flask)                    *)
(*                                                                         *)
(* Strings that a handler inspects (device identifiers, which are          *)
(* stripped) are sequences of characters.  An Optional value is <<>> for   *)
(* None and <<v>> for a value v.  A stored timestamp is the tuple of the   *)
(* fields strftime writes.                                                 *)
(***************************************************************************)
EXTENDS Integers, Sequences, FiniteSets, TLC

VARIABLES
    now,        \* the wall clock, in ticks since midnight of day 0
    devices,    \* table devices: a set of rows
    commands,   \* table commands: a set of rows
    cmdSeq,     \* sqlite_sequence of commands: the largest id ever given
    last,       \* the request completed last and its response
    dirty,      \* stripped device ids with a send_command since their last poll
    inflight,   \* per worker process: the request it is in the middle of
    delivered,  \* per command id: how many poll responses carried it
    sms_logs,   \* table sms_logs: a set of rows
    smsSeq,     \* sqlite_sequence of sms_logs
    form_submissions,   \* table form_submissions: a set of rows
    formSeq,    \* sqlite_sequence of form_submissions
    global_settings,    \* table global_settings: setting_key -> setting_value
    data_store, \* server.py: the in-memory store of the JSON-file variant
    data_file   \* server.py: the content of data.json

\* the command queue
queueVars == <<commands, cmdSeq, dirty, delivered>>

\* the telemetry logs
logVars == <<sms_logs, smsSeq, form_submissions, formSeq>>

\* the JSON-file variant
fileVars == <<data_store, data_file>>

vars == <<now, devices, last, inflight, queueVars, logVars, global_settings, fileVars>>

-----------------------------------------------------------------------------
(* Bounds of the model *)

\* clock ticks per second: datetime.now() is finer than the stored second
TicksPerSec == 2
\* the second of day 0 at which the server starts (shortly before 00:01:00)
StartSec == 50
\* how many ticks the clock advances in the specifications of the queue
MaxTicks == 2
\* how many seconds the clock advances in the liveness specification
MaxLiveSec == 22
\* how many commands are ever created
MaxCmds == 2
\* multiprocessing.cpu_count() of the host
CpuCount == 1

-----------------------------------------------------------------------------
(* Program constants *)

ONLINE_THRESHOLD_SECONDS == 20

\* timedelta(days=1), in seconds
DaySeconds == 86400

-----------------------------------------------------------------------------
(* Values *)

SP == " "

None == <<>>

Some(v) == <<v>>

\* str.strip(): drop leading and trailing whitespace, keep inner whitespace
RECURSIVE LStrip(_)
LStrip(s) ==
    IF s = <<>> THEN s
    ELSE IF Head(s) = SP THEN LStrip(Tail(s)) ELSE s

RECURSIVE RStrip(_)
RStrip(s) ==
    IF s = <<>> THEN s
    ELSE IF s[Len(s)] = SP THEN RStrip(SubSeq(s, 1, Len(s) - 1)) ELSE s

Strip(s) == RStrip(LStrip(s))

\* datetime.now(timezone.utc).strftime("%Y-%m-%d %H:%M:%S"): the sub-second part
\* is dropped and the second is written as the fields day, hour, minute, second
now_utc_string(t) ==
    LET sec == t \div TicksPerSec
    IN  << sec \div DaySeconds,
           (sec % DaySeconds) \div 3600,
           (sec % 3600) \div 60,
           sec % 60 >>

\* whether strptime(s, "%Y-%m-%d %H:%M:%S") accepts s
Parseable(s) ==
    /\ DOMAIN s = 1..4
    /\ s[1] \in Nat
    /\ s[2] \in 0..23
    /\ s[3] \in 0..59
    /\ s[4] \in 0..59

\* datetime.strptime(s, "%Y-%m-%d %H:%M:%S").replace(tzinfo=utc), in ticks
strptime(s) ==
    (((s[1] * 24 + s[2]) * 60 + s[3]) * 60 + s[4]) * TicksPerSec

\* TEXT comparison of two stored timestamps (fixed width: field by field)
RECURSIVE TextLess(_, _)
TextLess(s, t) ==
    IF s = <<>> \/ t = <<>> THEN s = <<>> /\ t # <<>>
    ELSE IF Head(s) # Head(t) THEN Head(s) < Head(t)
    ELSE TextLess(Tail(s), Tail(t))

\* command_data: a JSON object, as its key/value pairs in document order
Payloads == { <<>>, << <<"message", "hi">> >> }

CommandTypes == { "send_sms" }

\* json.dumps of a dict: the text, as its tokens
RECURSIVE DumpsPairs(_)
DumpsPairs(p) ==
    IF p = <<>> THEN <<>>
    ELSE << "\"", p[1][1], "\"", ":", "\"", p[1][2], "\"" >>
         \o (IF Len(p) > 1 THEN <<",">> ELSE <<>>)
         \o DumpsPairs(Tail(p))

json_dumps(p) == <<"{">> \o DumpsPairs(p) \o <<"}">>

\* json.loads of such a text: the pairs between the braces
RECURSIVE LoadsPairs(_)
LoadsPairs(toks) ==
    IF Len(toks) < 7 THEN <<>>
    ELSE << <<toks[2], toks[6]>> >>
         \o LoadsPairs(SubSeq(toks, IF Len(toks) > 7 THEN 9 ELSE 8, Len(toks)))

json_loads(text) == LoadsPairs(SubSeq(text, 2, Len(text) - 1))

-----------------------------------------------------------------------------
(* Tables *)

\* the request bodies of register: DeviceRegisterRequest
OptNames == { None, Some("n1") }

OptBattery == { None, Some(87) }

\* gunicorn's worker processes: each runs one handler at a time (the handlers
\* are coroutines that never await) and all share the database file
workers == CpuCount * 2 + 1

Workers == 1..workers

\* no request is in flight in a worker
Idle == [pc |-> "idle", dev |-> <<>>, rows |-> {}]

\* some worker is free to take a request
SomeIdle == \E w \in Workers : inflight[w].pc = "idle"


\* the response of a request, with the fields a handler does not set left empty
Response(op, dev, code) ==
    [op |-> op, dev |-> dev, code |-> code, cid |-> 0, cmds |-> {},
     views |-> <<>>, flip |-> ~last.flip]

\* SELECT id FROM devices WHERE device_id = ?
SelectDevice(tbl, d) == { r \in tbl : r.device_id = d }

\* UpdateDevice with created_at written along with last_seen
UpdateDevice_ResetsCreated(tbl, d, data, ts) ==
    { IF r.device_id = d
      THEN [r EXCEPT !.device_name = data.device_name,
                     !.os_version = data.os_version,
                     !.phone_number = data.phone_number,
                     !.battery_level = data.battery_level,
                     !.last_seen = ts,
                     !.created_at = ts]
      ELSE r : r \in tbl }

\* UpdateDevice that keeps a stored value where the request gives None
UpdateDevice_KeepsOnNull(tbl, d, data, ts) ==
    { IF r.device_id = d
      THEN [r EXCEPT !.device_name =
                         IF data.device_name = None THEN @ ELSE data.device_name,
                     !.os_version =
                         IF data.os_version = None THEN @ ELSE data.os_version,
                     !.phone_number =
                         IF data.phone_number = None THEN @ ELSE data.phone_number,
                     !.battery_level =
                         IF data.battery_level = None THEN @ ELSE data.battery_level,
                     !.last_seen = ts]
      ELSE r : r \in tbl }

\* UPDATE devices SET device_name = ?, os_version = ?, phone_number = ?,
\* battery_level = ?, last_seen = ? WHERE device_id = ?
UpdateDevice(tbl, d, data, ts) ==
    { IF r.device_id = d
      THEN [r EXCEPT !.device_name = data.device_name,
                     !.os_version = data.os_version,
                     !.phone_number = data.phone_number,
                     !.battery_level = data.battery_level,
                     !.last_seen = ts]
      ELSE r : r \in tbl }

\* NewDeviceRow with the device id as the request gives it
NewDeviceRow_Unstripped(data, clean, ts) ==
    [device_id |-> data.device_id,
     device_name |-> data.device_name,
     os_version |-> data.os_version,
     phone_number |-> data.phone_number,
     battery_level |-> data.battery_level,
     last_seen |-> ts,
     created_at |-> ts]

\* the row register inserts
NewDeviceRow(data, clean, ts) ==
    [device_id |-> clean,
     device_name |-> data.device_name,
     os_version |-> data.os_version,
     phone_number |-> data.phone_number,
     battery_level |-> data.battery_level,
     last_seen |-> ts,
     created_at |-> ts]

\* INSERT INTO devices (...) VALUES (...)
InsertDevice(tbl, row) == tbl \cup { row }

\* DELETE FROM <table> WHERE device_id = ?
\* DeleteWhereDevice without the WHERE clause
DeleteWhereDevice_NoWhere(tbl, d) == {}

DeleteWhereDevice(tbl, d) == { r \in tbl : r.device_id # d }

\* init_db: INSERT OR IGNORE of the default settings into the empty table
DefaultSettings ==
    [k \in {"sms_forward_number", "telegram_bot_token", "telegram_chat_id"} |->
        IF k = "sms_forward_number" THEN "9923255555" ELSE ""]

\* server.py: data_store as the module defines it (the configuration keys
\* and the unused "commands" are left out)
DefaultStore ==
    [devices |-> << >>,
     sms_forward_config |-> [forward_number |-> "YOUR_DEFAULT_FORWARD_NUMBER"],
     telegram_config |-> [bot_token |-> None, chat_id |-> None],
     commands |-> << >>]

\* data.json does not exist
NoFile == [exists |-> FALSE]

-----------------------------------------------------------------------------
(* The handlers of src/main.py, each as one atomic step *)

Init ==
    /\ now = StartSec * TicksPerSec
    /\ devices = {}
    /\ commands = {}
    /\ cmdSeq = 0
    /\ last = [op |-> "init", dev |-> <<>>, code |-> 0, cid |-> 0, cmds |-> {},
               views |-> <<>>, flip |-> FALSE]
    /\ dirty = {}
    /\ inflight = [w \in Workers |-> Idle]
    /\ delivered = [i \in {} |-> 0]
    /\ sms_logs = {}
    /\ smsSeq = 0
    /\ form_submissions = {}
    /\ formSeq = 0
    /\ global_settings = DefaultSettings
    /\ data_store = DefaultStore
    /\ data_file = NoFile

\* time passes
Tick(step, limit) ==
    /\ now + step <= StartSec * TicksPerSec + limit
    /\ now' = now + step
    /\ UNCHANGED <<devices, last, inflight, queueVars, logVars, global_settings, fileVars>>

\* GET /api/device/register
RegisterGet ==
    /\ last' = Response("register_get", <<>>, 200)
    /\ UNCHANGED <<now, devices, inflight, queueVars, logVars, global_settings, fileVars>>

\* POST /api/device/register with no body FastAPI can bind and none that
\* request.json() can read
RegisterNoBody ==
    /\ last' = Response("register", <<>>, 400)
    /\ UNCHANGED <<now, devices, inflight, queueVars, logVars, global_settings, fileVars>>

\* register_device that, when it creates the row, removes what is stored under
\* the id from earlier
register_device_Purges(data) ==
    LET current_time_str == now_utc_string(now)
        clean_device_id == Strip(data.device_id)
        device == SelectDevice(devices, clean_device_id)
    IN  /\ devices' =
            IF device # {}
            THEN UpdateDevice(devices, clean_device_id, data, current_time_str)
            ELSE InsertDevice(devices,
                     NewDeviceRow(data, clean_device_id, current_time_str))
        /\ sms_logs' = IF device # {} THEN sms_logs
                       ELSE DeleteWhereDevice(sms_logs, clean_device_id)
        /\ form_submissions' = IF device # {} THEN form_submissions
                               ELSE DeleteWhereDevice(form_submissions, clean_device_id)
        /\ commands' = IF device # {} THEN commands
                       ELSE DeleteWhereDevice(commands, clean_device_id)
        /\ delivered' = [i \in { r.id : r \in commands' } |-> delivered[i]]
        /\ last' = Response("register", data.device_id, 200)
        /\ UNCHANGED <<now, inflight, cmdSeq, dirty, smsSeq, formSeq,
                       global_settings, fileVars>>

\* POST /api/device/register with a DeviceRegisterRequest
register_device(data) ==
    LET current_time_str == now_utc_string(now)
        clean_device_id == Strip(data.device_id)
        device == SelectDevice(devices, clean_device_id)
    IN  /\ devices' =
            IF device # {}
            THEN UpdateDevice(devices, clean_device_id, data, current_time_str)
            ELSE InsertDevice(devices,
                     NewDeviceRow(data, clean_device_id, current_time_str))
        /\ last' = Response("register", data.device_id, 200)
        /\ UNCHANGED <<now, inflight, queueVars, logVars, global_settings, fileVars>>

\* DELETE /api/device/{device_id}
\* delete_device with the DELETEs of the logs, forms and commands run before
\* the device row is looked up
delete_device_CascadeFirst(device_id) ==
    LET clean_device_id == Strip(device_id)
        device == SelectDevice(devices, clean_device_id)
    IN  /\ devices' = DeleteWhereDevice(devices, clean_device_id)
        /\ sms_logs' = DeleteWhereDevice(sms_logs, clean_device_id)
        /\ form_submissions' = DeleteWhereDevice(form_submissions, clean_device_id)
        /\ commands' = DeleteWhereDevice(commands, clean_device_id)
        /\ delivered' = [i \in { r.id : r \in commands' } |-> delivered[i]]
        /\ last' = Response("delete", device_id, IF device = {} THEN 404 ELSE 200)
        /\ UNCHANGED <<now, cmdSeq, dirty, inflight, smsSeq, formSeq, global_settings, fileVars>>

delete_device(device_id) ==
    LET clean_device_id == Strip(device_id)
        device == SelectDevice(devices, clean_device_id)
    IN  IF device = {}
        THEN /\ last' = Response("delete", device_id, 404)
             /\ UNCHANGED <<now, devices, inflight, queueVars, logVars,
                            global_settings, fileVars>>
        ELSE /\ devices' = DeleteWhereDevice(devices, clean_device_id)
             /\ sms_logs' = DeleteWhereDevice(sms_logs, clean_device_id)
             /\ form_submissions' = DeleteWhereDevice(form_submissions, clean_device_id)
             /\ commands' = DeleteWhereDevice(commands, clean_device_id)
             /\ delivered' = [i \in { r.id : r \in commands' } |-> delivered[i]]
             /\ last' = Response("delete", device_id, 200)
             /\ UNCHANGED <<now, cmdSeq, dirty, inflight, smsSeq, formSeq, global_settings, fileVars>>

\* Python's `x or default` on an Optional[str] column: None and "" give the default
OrStr(o, default) == IF o = None \/ o = Some("") THEN default ELSE o[1]

\* Python's `x or 0` on an Optional[int] column: None and 0 give the default
OrInt(o, default) == IF o = None \/ o = Some(0) THEN default ELSE o[1]

\* IsOnline with <= for <
IsOnline_Inclusive(last_seen, current_time_utc) ==
    LET last_seen_dt ==
            IF Parseable(last_seen) THEN strptime(last_seen)
            ELSE current_time_utc - DaySeconds * TicksPerSec
    IN  current_time_utc - last_seen_dt <= ONLINE_THRESHOLD_SECONDS * TicksPerSec

\* IsOnline with the current time, not one day back, for a text that does
\* not parse
IsOnline_StaleAsNow(last_seen, current_time_utc) ==
    LET last_seen_dt ==
            IF Parseable(last_seen) THEN strptime(last_seen)
            ELSE current_time_utc
    IN  current_time_utc - last_seen_dt < ONLINE_THRESHOLD_SECONDS * TicksPerSec

\* (current_time_utc - last_seen_dt).total_seconds() < ONLINE_THRESHOLD_SECONDS,
\* with last_seen_dt one day back when the stored text does not parse
IsOnline(last_seen, current_time_utc) ==
    LET last_seen_dt ==
            IF Parseable(last_seen) THEN strptime(last_seen)
            ELSE current_time_utc - DaySeconds * TicksPerSec
    IN  current_time_utc - last_seen_dt < ONLINE_THRESHOLD_SECONDS * TicksPerSec

\* the DeviceResponse of one row
DeviceResponse(device, current_time_utc) ==
    [device_id |-> device.device_id,
     device_name |-> OrStr(device.device_name, "Unknown Device"),
     os_version |-> OrStr(device.os_version, "Unknown"),
     phone_number |-> OrStr(device.phone_number, "No Number"),
     battery_level |-> OrInt(device.battery_level, 0),
     is_online |-> IsOnline(device.last_seen, current_time_utc),
     created_at |-> device.created_at,
     last_seen |-> device.last_seen]

\* SELECT * FROM devices ORDER BY last_seen DESC: every order of the rows the
\* clause allows (rows of equal last_seen come in any order)
RECURSIVE OrderByLastSeenDesc(_)
OrderByLastSeenDesc(rows) ==
    IF rows = {} THEN { <<>> }
    ELSE UNION { { <<r>> \o rest : rest \in OrderByLastSeenDesc(rows \ {r}) } :
                 r \in { x \in rows :
                           \A y \in rows : ~TextLess(x.last_seen, y.last_seen) } }

\* get_devices that writes the placeholders it shows into the rows
get_devices_Fills ==
    \E rows \in OrderByLastSeenDesc(devices) :
        /\ last' = [Response("list", <<>>, 200) EXCEPT
                       !.views = [i \in 1..Len(rows) |->
                                     DeviceResponse(rows[i], now)]]
        /\ devices' = { [r EXCEPT
                            !.device_name = Some(OrStr(r.device_name, "Unknown Device")),
                            !.os_version = Some(OrStr(r.os_version, "Unknown")),
                            !.phone_number = Some(OrStr(r.phone_number, "No Number")),
                            !.battery_level = Some(OrInt(r.battery_level, 0))] :
                         r \in devices }
        /\ UNCHANGED <<now, inflight, queueVars, logVars, global_settings, fileVars>>

\* GET /api/devices
get_devices ==
    \E rows \in OrderByLastSeenDesc(devices) :
        /\ last' = [Response("list", <<>>, 200) EXCEPT
                       !.views = [i \in 1..Len(rows) |->
                                     DeviceResponse(rows[i], now)]]
        /\ UNCHANGED <<now, devices, inflight, queueVars, logVars, global_settings, fileVars>>

\* NewCommandRow with the device id as the request gives it
NewCommandRow_Unstripped(id, data, ts) ==
    [id |-> id,
     device_id |-> data.device_id,
     command_type |-> data.command_type,
     command_data |-> json_dumps(data.command_data),
     status |-> "pending",
     created_at |-> ts]

\* the row send_command inserts: status takes the column's DEFAULT 'pending'
NewCommandRow(id, data, ts) ==
    [id |-> id,
     device_id |-> Strip(data.device_id),
     command_type |-> data.command_type,
     command_data |-> json_dumps(data.command_data),
     status |-> "pending",
     created_at |-> ts]

\* the largest id of a table's rows, 0 for the empty table
MaxRowid(tbl) ==
    IF tbl = {} THEN 0 ELSE CHOOSE m \in { r.id : r \in tbl } : \A r \in tbl : r.id <= m

\* send_command on a table whose id is INTEGER PRIMARY KEY without
\* AUTOINCREMENT: the new row gets the largest id in the table plus one
send_command_RowidMax(data) ==
    /\ cmdSeq < MaxCmds
    /\ cmdSeq' = MaxRowid(commands) + 1
    /\ commands' = commands \cup
          { NewCommandRow(MaxRowid(commands) + 1, data, now_utc_string(now)) }
    /\ delivered' = [i \in DOMAIN delivered \cup {MaxRowid(commands) + 1} |->
                        IF i \in DOMAIN delivered THEN delivered[i] ELSE 0]
    /\ dirty' = dirty \cup { Strip(data.device_id) }
    /\ last' = [Response("send", data.device_id, 200) EXCEPT
                   !.cid = MaxRowid(commands) + 1]
    /\ UNCHANGED <<now, devices, inflight, logVars, global_settings, fileVars>>

\* POST /api/command/send with a SendCommandRequest
send_command(data) ==
    /\ cmdSeq < MaxCmds
    /\ cmdSeq' = cmdSeq + 1
    /\ commands' = commands \cup { NewCommandRow(cmdSeq + 1, data, now_utc_string(now)) }
    /\ delivered' = [i \in DOMAIN delivered \cup {cmdSeq + 1} |->
                        IF i \in DOMAIN delivered THEN delivered[i] ELSE 0]
    /\ dirty' = dirty \cup { Strip(data.device_id) }
    /\ last' = [Response("send", data.device_id, 200) EXCEPT !.cid = cmdSeq + 1]
    /\ UNCHANGED <<now, devices, inflight, logVars, global_settings, fileVars>>

\* SelectPending without the device_id = ? condition
SelectPending_AnyDevice(tbl, d) == { r \in tbl : r.status = "pending" }

\* SelectPending with LIMIT 1: the pending command of the lowest id only
SelectPending_Oldest(tbl, d) ==
    { r \in tbl : /\ r.device_id = d
                  /\ r.status = "pending"
                  /\ \A x \in tbl : (x.device_id = d /\ x.status = "pending")
                                      => r.id <= x.id }

\* SELECT id, command_type, command_data FROM commands
\* WHERE device_id = ? AND status = 'pending'
SelectPending(tbl, d) == { r \in tbl : r.device_id = d /\ r.status = "pending" }

\* CommandEntry without json.loads: the stored text is returned as it is
CommandEntry_Raw(cmd) ==
    [id |-> cmd.id,
     command_type |-> cmd.command_type,
     command_data |-> cmd.command_data]

\* the entry of the response for one selected row
CommandEntry(cmd) ==
    [id |-> cmd.id,
     command_type |-> cmd.command_type,
     command_data |-> json_loads(cmd.command_data)]

\* UpdateSent without its WHERE clause
UpdateSent_NoWhere(tbl, command_ids) ==
    { [r EXCEPT !.status = "sent"] : r \in tbl }

\* UpdateSent that is never committed
UpdateSent_Lost(tbl, command_ids) == tbl

\* UPDATE commands SET status = 'sent' WHERE id IN (...)
UpdateSent(tbl, command_ids) ==
    { IF r.id \in command_ids THEN [r EXCEPT !.status = "sent"] ELSE r : r \in tbl }

\* UpdateExecuted with the condition status = 'sent' added
UpdateExecuted_OnlySent(tbl, command_id) ==
    { IF r.id = command_id /\ r.status = "sent"
      THEN [r EXCEPT !.status = "executed"] ELSE r : r \in tbl }

\* UPDATE commands SET status = 'executed' WHERE id = ?
UpdateExecuted(tbl, command_id) ==
    { IF r.id = command_id THEN [r EXCEPT !.status = "executed"] ELSE r : r \in tbl }

\* the count of responses that carried a command, after one more carried ids
Deliver(ids) ==
    [i \in DOMAIN delivered |-> IF i \in ids THEN delivered[i] + 1 ELSE delivered[i]]

\* get_pending_commands with UPDATE ... WHERE device_id = ? for WHERE id IN (...)
get_pending_commands_ByDevice(device_id) ==
    LET cmds == SelectPending(commands, Strip(device_id))
        command_list == { CommandEntry(cmd) : cmd \in cmds }
        command_ids == { cmd.id : cmd \in command_list }
    IN  /\ commands' = { IF r.device_id = Strip(device_id)
                         THEN [r EXCEPT !.status = "sent"]
                         ELSE r : r \in commands }
        /\ delivered' = Deliver(command_ids)
        /\ dirty' = dirty \ { Strip(device_id) }
        /\ last' = [Response("poll", device_id, 200) EXCEPT !.cmds = command_list]
        /\ UNCHANGED <<now, devices, cmdSeq, inflight, logVars, global_settings, fileVars>>

\* get_pending_commands that also sets last_seen of the polling device
get_pending_commands_Touches(device_id) ==
    LET cmds == SelectPending(commands, Strip(device_id))
        command_list == { CommandEntry(cmd) : cmd \in cmds }
        command_ids == { cmd.id : cmd \in command_list }
    IN  /\ commands' = IF command_list # {}
                       THEN UpdateSent(commands, command_ids)
                       ELSE commands
        /\ devices' = { IF r.device_id = Strip(device_id)
                        THEN [r EXCEPT !.last_seen = now_utc_string(now)]
                        ELSE r : r \in devices }
        /\ delivered' = Deliver(command_ids)
        /\ dirty' = dirty \ { Strip(device_id) }
        /\ last' = [Response("poll", device_id, 200) EXCEPT !.cmds = command_list]
        /\ UNCHANGED <<now, cmdSeq, inflight, logVars, global_settings, fileVars>>

\* GET /api/device/{device_id}/commands
get_pending_commands(device_id) ==
    LET cmds == SelectPending(commands, Strip(device_id))
        command_list == { CommandEntry(cmd) : cmd \in cmds }
        command_ids == { cmd.id : cmd \in command_list }
    IN  /\ commands' = IF command_list # {}
                       THEN UpdateSent(commands, command_ids)
                       ELSE commands
        /\ delivered' = Deliver(command_ids)
        /\ dirty' = dirty \ { Strip(device_id) }
        /\ last' = [Response("poll", device_id, 200) EXCEPT !.cmds = command_list]
        /\ UNCHANGED <<now, devices, cmdSeq, inflight, logVars, global_settings, fileVars>>

\* POST /api/command/{command_id}/execute
mark_command_executed(command_id) ==
    /\ commands' = UpdateExecuted(commands, command_id)
    /\ last' = [Response("execute", <<>>, 200) EXCEPT !.cid = command_id]
    /\ UNCHANGED <<now, devices, cmdSeq, dirty, inflight, delivered, logVars,
                 global_settings, fileVars>>

-----------------------------------------------------------------------------
(* Telemetry of the SQLite variant: SMS logs and form submissions *)

\* how many SMS log entries are ever stored
MaxSms == 2
\* how many form submissions are ever stored
MaxForms == 1

\* LIMIT of the SELECT in get_sms_logs
SmsLimit == 500

\* the bodies of the log requests (SmsLogRequest, FormSubmissionRequest)
SmsBodies == [sender : { "+1555" }, message_body : { "hi" }]
FormBodies == [custom_data : { "k=v" }]

\* NewSmsRow with the device id as the path gives it
NewSmsRow_Unstripped(id, device_id, data, ts) ==
    [id |-> id, device_id |-> device_id, sender |-> data.sender,
     message_body |-> data.message_body, received_at |-> ts]

\* the row log_sms inserts
NewSmsRow(id, device_id, data, ts) ==
    [id |-> id, device_id |-> Strip(device_id), sender |-> data.sender,
     message_body |-> data.message_body, received_at |-> ts]

\* the row submit_form inserts
NewFormRow(id, device_id, data, ts) ==
    [id |-> id, device_id |-> Strip(device_id), custom_data |-> data.custom_data,
     submitted_at |-> ts]

\* log_sms that keeps the newest entry of the device only
log_sms_Latest(device_id, data) ==
    /\ smsSeq < MaxSms
    /\ sms_logs' = DeleteWhereDevice(sms_logs, Strip(device_id)) \cup
                      { NewSmsRow(smsSeq + 1, device_id, data, now_utc_string(now)) }
    /\ smsSeq' = smsSeq + 1
    /\ last' = Response("log_sms", device_id, 200)
    /\ UNCHANGED <<now, devices, inflight, queueVars, form_submissions, formSeq,
                   global_settings, fileVars>>

\* POST /api/device/{device_id}/sms
log_sms(device_id, data) ==
    /\ smsSeq < MaxSms
    /\ sms_logs' = sms_logs \cup
                      { NewSmsRow(smsSeq + 1, device_id, data, now_utc_string(now)) }
    /\ smsSeq' = smsSeq + 1
    /\ last' = Response("log_sms", device_id, 200)
    /\ UNCHANGED <<now, devices, inflight, queueVars, form_submissions, formSeq,
                   global_settings, fileVars>>

\* POST /api/device/{device_id}/forms
submit_form(device_id, data) ==
    /\ formSeq < MaxForms
    /\ form_submissions' = form_submissions \cup
          { NewFormRow(formSeq + 1, device_id, data, now_utc_string(now)) }
    /\ formSeq' = formSeq + 1
    /\ last' = Response("submit_form", device_id, 200)
    /\ UNCHANGED <<now, devices, inflight, queueVars, sms_logs, smsSeq,
                   global_settings, fileVars>>

\* SelectLogs over the devices that are registered only
SelectLogs_Registered(tbl, d) ==
    { r \in tbl : r.device_id = d /\ SelectDevice(devices, d) # {} }

\* ... FROM sms_logs / form_submissions WHERE device_id = ?
SelectLogs(tbl, d) == { r \in tbl : r.device_id = d }

\* every order of the rows of a set
RECURSIVE Orders(_)
Orders(S) ==
    IF S = {} THEN { <<>> }
    ELSE UNION { { <<r>> \o rest : rest \in Orders(S \ {r}) } : r \in S }

\* ORDER BY received_at DESC: every order of the rows the clause allows. A row
\* comes after the rows that are newer than it, and rows of one timestamp come
\* in any order; Between(lo, hi) orders the rows that have lo..hi-1 newer rows
OrderByReceivedAtDesc(rows) ==
    LET newer == { << Cardinality({ y \in rows :
                                      TextLess(r.received_at, y.received_at) }), r >> :
                   r \in rows }
        RECURSIVE Between(_, _)
        Between(lo, hi) ==
            IF hi <= lo THEN { <<>> }
            ELSE IF hi = lo + 1
                 THEN Orders({ p[2] : p \in { q \in newer : q[1] = lo } })
                 ELSE LET mid == (lo + hi) \div 2
                      IN  { first \o rest : first \in Between(lo, mid),
                                            rest \in Between(mid, hi) }
    IN  Between(0, Cardinality(rows))

\* OrderBySubmittedAtDesc with ASC for DESC
RECURSIVE OrderBySubmittedAtDesc_Asc(_)
OrderBySubmittedAtDesc_Asc(rows) ==
    IF rows = {} THEN { <<>> }
    ELSE UNION { { <<r>> \o rest : rest \in OrderBySubmittedAtDesc_Asc(rows \ {r}) } :
                 r \in { x \in rows :
                           \A y \in rows : ~TextLess(y.submitted_at, x.submitted_at) } }

\* ORDER BY submitted_at DESC: every order of the rows the clause allows
RECURSIVE OrderBySubmittedAtDesc(_)
OrderBySubmittedAtDesc(rows) ==
    IF rows = {} THEN { <<>> }
    ELSE UNION { { <<r>> \o rest : rest \in OrderBySubmittedAtDesc(rows \ {r}) } :
                 r \in { x \in rows :
                           \A y \in rows : ~TextLess(x.submitted_at, y.submitted_at) } }

\* LIMIT n taken from the end of the order
Limit_Last(rows, n) ==
    SubSeq(rows, IF Len(rows) < n THEN 1 ELSE Len(rows) - n + 1, Len(rows))

\* LIMIT n
Limit(rows, n) == SubSeq(rows, 1, IF Len(rows) < n THEN Len(rows) ELSE n)

\* one entry of the response of get_sms_logs
SmsEntry(sms) ==
    [id |-> sms.id, sender |-> sms.sender, message_body |-> sms.message_body,
     received_at |-> sms.received_at]

\* one entry of the response of get_form_submissions
FormEntry(form) ==
    [id |-> form.id, custom_data |-> form.custom_data,
     submitted_at |-> form.submitted_at]

\* GET /api/device/{device_id}/sms
get_sms_logs(device_id) ==
    \E rows \in OrderByReceivedAtDesc(SelectLogs(sms_logs, Strip(device_id))) :
        /\ last' = [Response("get_sms", device_id, 200) EXCEPT
                       !.views = [i \in DOMAIN Limit(rows, SmsLimit) |->
                                     SmsEntry(Limit(rows, SmsLimit)[i])]]
        /\ UNCHANGED <<now, devices, inflight, queueVars, logVars, global_settings, fileVars>>

\* GET /api/device/{device_id}/forms
get_form_submissions(device_id) ==
    \E rows \in OrderBySubmittedAtDesc(SelectLogs(form_submissions, Strip(device_id))) :
        /\ last' = [Response("get_forms", device_id, 200) EXCEPT
                       !.views = [i \in 1..Len(rows) |-> FormEntry(rows[i])]]
        /\ UNCHANGED <<now, devices, inflight, queueVars, logVars, global_settings, fileVars>>

\* the bodies of the settings requests (SmsForwardConfigRequest,
\* TelegramConfigRequest)
SmsForwardBodies == [forward_number : { "9923255555", "111" }]
TelegramBodies == [telegram_bot_token : { "", "tok" }, telegram_chat_id : { "42" }]

\* INSERT OR IGNORE INTO global_settings (setting_key, setting_value) VALUES (?, ?)
InsertOrIgnore(tbl, k, v) ==
    [x \in DOMAIN tbl \cup { k } |-> IF x \in DOMAIN tbl THEN tbl[x] ELSE v]

\* INSERT OR REPLACE INTO global_settings (setting_key, setting_value) VALUES (?, ?)
InsertOrReplace(tbl, k, v) ==
    [x \in DOMAIN tbl \cup { k } |-> IF x = k THEN v ELSE tbl[x]]

\* the setting_value of the row of a key, or the default where there is no row
SettingOr(tbl, k, default) == IF k \in DOMAIN tbl THEN tbl[k] ELSE default

\* POST /api/config/sms_forward
update_sms_forward_config(data) ==
    /\ global_settings' =
          InsertOrReplace(global_settings, "sms_forward_number", data.forward_number)
    /\ last' = [Response("set_sms_forward", <<>>, 200) EXCEPT !.views = << data >>]
    /\ UNCHANGED <<now, devices, inflight, queueVars, logVars, fileVars>>

\* POST /api/config/telegram
update_telegram_config(data) ==
    /\ global_settings' =
          InsertOrReplace(
              InsertOrReplace(global_settings, "telegram_bot_token",
                              data.telegram_bot_token),
              "telegram_chat_id", data.telegram_chat_id)
    /\ last' = [Response("set_telegram", <<>>, 200) EXCEPT !.views = << data >>]
    /\ UNCHANGED <<now, devices, inflight, queueVars, logVars, fileVars>>

\* GET /api/config/sms_forward
get_sms_forward_config ==
    /\ last' = [Response("get_sms_forward", <<>>, 200) EXCEPT
                   !.views = << [forward_number |->
                                    SettingOr(global_settings, "sms_forward_number",
                                              "9923255555")] >>]
    /\ UNCHANGED <<now, devices, inflight, queueVars, logVars, global_settings, fileVars>>

\* GET /api/config/telegram
get_telegram_config ==
    /\ last' = [Response("get_telegram", <<>>, 200) EXCEPT
                   !.views = << [telegram_bot_token |->
                                    SettingOr(global_settings, "telegram_bot_token", ""),
                                telegram_chat_id |->
                                    SettingOr(global_settings, "telegram_chat_id", "")] >>]
    /\ UNCHANGED <<now, devices, inflight, queueVars, logVars, global_settings, fileVars>>

-----------------------------------------------------------------------------
(* The JSON-file variant, src/server.py.  data_store maps "devices" to a    *)
(* dict from device id (not stripped) to the device's dict; a request body  *)
(* is a dict, here a record with the keys the request carries.              *)

\* int(time.time())
time_time == now \div TicksPerSec

\* dict.get(key) for a key with a text value: None when the key is absent
Get(d, k) == IF k \in DOMAIN d THEN Some(d[k]) ELSE None

\* Truthy with the empty text counted as true
Truthy_NotNone(o) == o # None

\* Python's truth of such a value: None and "" are false
Truthy(o) == o # None /\ o # Some("")

\* A JSON text is the sequence of its characters; the JSON number of decimal
\* digits ds is the sequence << "int" >> \o ds, which no text is.
\* json.dump writes the key of a dict as a text: a number as its digits
JsonKey(k) == IF k # <<>> /\ Head(k) = "int" THEN Tail(k) ELSE k

\* json.dump(data_store): the members of the devices object are written one
\* by one, each under its key as a text; the values are written as they are
json_dump(store) ==
    [devices |-> { << JsonKey(k), store.devices[k] >> : k \in DOMAIN store.devices },
     sms_forward_config |-> store.sms_forward_config,
     telegram_config |-> store.telegram_config,
     commands |-> store.commands]

\* json.load of such a file: one member for each key of the devices object,
\* where of the members written under one key the last written stays (the
\* order of writing is the dict's, which is not kept here: any of them)
json_load(content) ==
    LET keys == { p[1] : p \in content.devices }
        dicts == { p[2] : p \in content.devices }
    IN  { [devices |-> f,
           sms_forward_config |-> content.sms_forward_config,
           telegram_config |-> content.telegram_config,
           commands |-> content.commands] :
          f \in { g \in [keys -> dicts] :
                    \A k \in keys : << k, g[k] >> \in content.devices } }

\* save_data(): json.dump of data_store into data.json
save_data(store) == [exists |-> TRUE, content |-> json_dump(store)]

\* load_data() at the start of the server process: the store is read from
\* data.json, and is the default store when there is no file
load_data ==
    /\ data_store' \in IF data_file.exists THEN json_load(data_file.content)
                        ELSE { DefaultStore }
    /\ last' = Response("load_data", <<>>, 0)
    /\ UNCHANGED <<now, devices, inflight, queueVars, logVars, global_settings,
                   data_file>>

\* the answer of a handler that returns before it changes anything
Refuse(op, dev, code) ==
    /\ last' = Response(op, dev, code)
    /\ UNCHANGED <<now, devices, inflight, queueVars, logVars, global_settings,
                   fileVars>>

\* the store with the dict of one device replaced, saved to the file
StoreDevice(device_id, dict) ==
    LET store == [data_store EXCEPT
                     !.devices = (device_id :> dict) @@ data_store.devices]
    IN  /\ data_store' = store
        /\ data_file' = save_data(store)
        /\ UNCHANGED <<now, devices, inflight, queueVars, logVars, global_settings>>

\* POST /api/device/register of server.py: dict.update writes every key of
\* the body into the device's dict
file_register_device(device_data) ==
    IF "device_id" \notin DOMAIN device_data \/ device_data.device_id = <<>>
    THEN Refuse("file_register", <<>>, 400)
    ELSE LET device_id == device_data.device_id
             current == IF device_id \in DOMAIN data_store.devices
                        THEN data_store.devices[device_id]
                        ELSE [created_at |-> time_time, sms |-> <<>>, forms |-> <<>>]
             updated == device_data @@ current
         IN  /\ StoreDevice(device_id, [last_seen |-> time_time] @@ updated)
             /\ last' = Response("file_register", device_id, 200)

\* the entry receive_new_sms appends
NewSmsEntry(n, sms_data) ==
    [id |-> ToString(n), sender |-> sms_data.sender,
     message_body |-> sms_data.message_body, received_at |-> time_time,
     type |-> "new"]

\* POST /api/device/<device_id>/sms of server.py: the body is checked before
\* the device is looked up
receive_new_sms(device_id, sms_data) ==
    IF ~(Truthy(Get(sms_data, "sender")) /\ Truthy(Get(sms_data, "message_body")))
    THEN Refuse("new_sms", device_id, 400)
    ELSE IF device_id \notin DOMAIN data_store.devices
    THEN Refuse("new_sms", device_id, 404)
    ELSE LET dict == data_store.devices[device_id]
         IN  /\ Len(dict.sms) < MaxSms
             /\ StoreDevice(device_id,
                    [dict EXCEPT !.sms = Append(@, NewSmsEntry(Len(@) + 1, sms_data))])
             /\ last' = Response("new_sms", device_id, 200)

\* the entry receive_form_details appends
NewFormEntry(n, form_data) ==
    [id |-> ToString(n), custom_data |-> form_data.custom_data,
     received_at |-> time_time]

\* POST /api/device/<device_id>/forms of server.py
receive_form_details(device_id, form_data) ==
    IF ~Truthy(Get(form_data, "custom_data"))
    THEN Refuse("form_details", device_id, 400)
    ELSE IF device_id \notin DOMAIN data_store.devices
    THEN Refuse("form_details", device_id, 404)
    ELSE LET dict == data_store.devices[device_id]
         IN  /\ Len(dict.forms) < MaxForms
             /\ StoreDevice(device_id,
                    [dict EXCEPT !.forms = Append(@, NewFormEntry(Len(@) + 1, form_data))])
             /\ last' = Response("form_details", device_id, 200)

\* the loop of receive_all_sms over the batch: an item without address, body
\* or date is skipped, the others are appended with the next id
RECURSIVE StoreBatch(_, _)
StoreBatch(sms, items) ==
    IF items = <<>> THEN sms
    ELSE LET sms_item == Head(items)
         IN  IF Truthy(Get(sms_item, "address")) /\ Truthy(Get(sms_item, "body"))
                /\ Truthy(Get(sms_item, "date"))
             THEN StoreBatch(Append(sms,
                      [id |-> ToString(Len(sms) + 1), sender |-> sms_item.address,
                       message_body |-> sms_item.body, date |-> sms_item.date,
                       received_at |-> time_time, type |-> "historical"]),
                      Tail(items))
             ELSE StoreBatch(sms, Tail(items))

\* POST /api/device/<device_id>/all_sms of server.py: the device's SMS list is
\* emptied and filled from the batch
receive_all_sms(device_id, all_sms_data) ==
    IF ~all_sms_data.is_list
    THEN Refuse("all_sms", device_id, 400)
    ELSE IF device_id \notin DOMAIN data_store.devices
    THEN Refuse("all_sms", device_id, 404)
    ELSE LET dict == data_store.devices[device_id]
         IN  /\ StoreDevice(device_id,
                    [dict EXCEPT !.sms = StoreBatch(<<>>, all_sms_data.items)])
             /\ last' = Response("all_sms", device_id, 200)

\* POST /api/admin/set_sms_forward of server.py
admin_set_sms_forward(config) ==
    IF ~Truthy(Get(config, "forward_number"))
    THEN Refuse("admin_sms_forward", <<>>, 400)
    ELSE LET store == [data_store EXCEPT
                          !.sms_forward_config.forward_number = config.forward_number]
         IN  /\ data_store' = store
             /\ data_file' = save_data(store)
             /\ last' = Response("admin_sms_forward", <<>>, 200)
             /\ UNCHANGED <<now, devices, inflight, queueVars, logVars, global_settings>>

\* POST /api/admin/set_telegram_config of server.py
admin_set_telegram_config(config) ==
    IF ~(Truthy(Get(config, "bot_token")) /\ Truthy(Get(config, "chat_id")))
    THEN Refuse("admin_telegram", <<>>, 400)
    ELSE LET store == [data_store EXCEPT
                          !.telegram_config = [bot_token |-> Get(config, "bot_token"),
                                               chat_id |-> Get(config, "chat_id")]]
         IN  /\ data_store' = store
             /\ data_file' = save_data(store)
             /\ last' = Response("admin_telegram", <<>>, 200)
             /\ UNCHANGED <<now, devices, inflight, queueVars, logVars, global_settings>>

-----------------------------------------------------------------------------
(* Specifications: the requests each one lets clients send *)

\* a register body that carries nothing but the device id
BareRegister(raw) ==
    [device_id |-> raw, device_name |-> None, os_version |-> None,
     phone_number |-> None, battery_level |-> None]

\* the device ids of the queue's clients
QueueIds == { <<"a">>, <<SP, "a">>, <<"b">> }

SendRequests ==
    [device_id : QueueIds, command_type : CommandTypes, command_data : Payloads]

\* the command queue with the registry: every handler runs to completion
Next ==
    \/ \E raw \in QueueIds : register_device(BareRegister(raw))
    \/ \E raw \in QueueIds : delete_device(raw)
    \/ \E data \in SendRequests : send_command(data)
    \/ \E raw \in QueueIds : get_pending_commands(raw)
    \/ \E id \in 1..(MaxCmds + 1) : mark_command_executed(id)

Spec == Init /\ [][Next]_vars

\* the device ids of the registry's clients
RegIds == { <<>>, <<SP>>, <<"a">>, <<SP, "a", SP>>, <<"b">> }

\* the registry alone, with the clock
NextReg ==
    \/ RegisterGet
    \/ RegisterNoBody
    \/ \E raw \in RegIds : register_device(BareRegister(raw))
    \/ \E raw \in RegIds : delete_device(raw)
    \/ Tick(1, MaxTicks)

SpecReg == Init /\ [][NextReg]_vars

\* the device ids of the clients that send every optional field
FieldIds == { <<"a">>, <<SP, "a", SP>> }

RegRequests ==
    [device_id : FieldIds, device_name : OptNames, os_version : { None, Some("13") },
     phone_number : { None, Some("+1555") }, battery_level : OptBattery]

\* one device registered with every combination of its optional fields
NextFields ==
    \/ \E data \in RegRequests : register_device(data)
    \/ \E raw \in FieldIds : delete_device(raw)
    \/ Tick(1, MaxTicks)

SpecFields == Init /\ [][NextFields]_vars

LiveIds == { <<"a">>, <<"a", SP>> }

\* one device and the panel's listing, over more than the online threshold
NextLive ==
    \/ \E raw \in LiveIds : register_device(BareRegister(raw))
    \/ get_devices
    \/ Tick(1, MaxLiveSec * TicksPerSec)

SpecLive == Init /\ [][NextLive]_vars

\* the device ids of the clients that log telemetry
LogIds == { <<"a">>, <<"b">> }

LogSendRequests ==
    [device_id : LogIds, command_type : CommandTypes,
     command_data : { << <<"message", "hi">> >> }]

\* the registry and the telemetry of the SQLite variant
NextLog ==
    \/ \E raw \in LogIds : register_device(BareRegister(raw))
    \/ \E raw \in LogIds : delete_device(raw)
    \/ \E raw \in LogIds, data \in SmsBodies : log_sms(raw, data)
    \/ \E raw \in LogIds, data \in FormBodies : submit_form(raw, data)
    \/ \E raw \in LogIds : get_sms_logs(raw)
    \/ \E raw \in LogIds : get_form_submissions(raw)

SpecLog == Init /\ [][NextLog]_vars

\* the four tables that hold rows of a device, and the delete of a device
NextCascade ==
    \/ \E raw \in LogIds : register_device(BareRegister(raw))
    \/ \E raw \in LogIds : delete_device(raw)
    \/ \E raw \in LogIds, data \in SmsBodies : log_sms(raw, data)
    \/ \E raw \in LogIds, data \in FormBodies : submit_form(raw, data)
    \/ \E data \in LogSendRequests : send_command(data)

SpecCascade == Init /\ [][NextCascade]_vars

-----------------------------------------------------------------------------
(* The handlers as the worker processes run them: a handler's statements   *)
(* are separate steps.  sqlite3 opens a transaction at the first INSERT,    *)
(* UPDATE or DELETE only, so a SELECT reads the committed state on its own, *)
(* and the writes up to conn.commit() become visible together.              *)

\* get_pending_commands up to cursor.fetchall(): the SELECT
poll_select(w, device_id) ==
    /\ inflight[w].pc = "idle"
    /\ inflight' = [inflight EXCEPT ![w] =
           [pc |-> "poll_selected", dev |-> device_id,
            rows |-> { CommandEntry(cmd) :
                         cmd \in SelectPending(commands, Strip(device_id)) }]]
    /\ UNCHANGED <<now, devices, last, queueVars, logVars, global_settings, fileVars>>

\* get_pending_commands from the UPDATE to the response
poll_update(w) ==
    LET command_list == inflight[w].rows
        command_ids == { cmd.id : cmd \in command_list }
    IN  /\ inflight[w].pc = "poll_selected"
        /\ commands' = IF command_list # {}
                       THEN UpdateSent(commands, command_ids)
                       ELSE commands
        /\ delivered' = [i \in DOMAIN delivered \cup command_ids |->
                            (IF i \in DOMAIN delivered THEN delivered[i] ELSE 0)
                            + (IF i \in command_ids THEN 1 ELSE 0)]
        /\ dirty' = dirty \ { Strip(inflight[w].dev) }
        /\ last' = [Response("poll", inflight[w].dev, 200) EXCEPT
                       !.cmds = command_list]
        /\ inflight' = [inflight EXCEPT ![w] = Idle]
        /\ UNCHANGED <<now, devices, cmdSeq, logVars, global_settings, fileVars>>

\* the device ids of the clients that poll at the same time
ConcIds == { <<"a">>, <<SP, "a">> }

ConcSendRequests ==
    [device_id : ConcIds, command_type : CommandTypes, command_data : { <<>> }]

\* the command queue served by the worker processes
NextConc ==
    \/ \E data \in ConcSendRequests : SomeIdle /\ send_command(data)
    \/ \E w \in Workers, raw \in ConcIds : poll_select(w, raw)
    \/ \E w \in Workers : poll_update(w)
    \/ \E id \in 1..MaxCmds : SomeIdle /\ mark_command_executed(id)

SpecConc == Init /\ [][NextConc]_vars

\* the payloads of the panel's commands: none, one and two key-value pairs
PanelPayloads ==
    { <<>>,
      << <<"forward_number", "+1555">> >>,
      << <<"phone_number", "+1555">>, <<"message", "hi">> >> }

PanelRequests ==
    [device_id : { <<"a">>, <<"a", SP>> },
     command_type : { "send_sms", "call_forward" },
     command_data : PanelPayloads]

\* the panel's commands and one polling device
NextPanel ==
    \/ \E data \in PanelRequests : send_command(data)
    \/ \E raw \in { <<"a">>, <<"a", SP>> } : get_pending_commands(raw)

SpecPanel == Init /\ [][NextPanel]_vars

\* three spellings of one device id
TrimIds == { <<"a">>, <<SP, "a">>, <<SP, "a", SP>> }

TrimSendRequests ==
    [device_id : TrimIds, command_type : CommandTypes, command_data : { <<>> }]

\* every operation of the SQLite variant that takes a device id
NextTrim ==
    \/ \E raw \in TrimIds : register_device(BareRegister(raw))
    \/ \E data \in TrimSendRequests : send_command(data)
    \/ \E raw \in TrimIds : get_pending_commands(raw)
    \/ \E raw \in TrimIds, data \in SmsBodies : log_sms(raw, data)
    \/ \E raw \in TrimIds : get_sms_logs(raw)
    \/ \E raw \in TrimIds, data \in FormBodies : submit_form(raw, data)
    \/ \E raw \in TrimIds : get_form_submissions(raw)
    \/ \E raw \in TrimIds : delete_device(raw)

SpecTrim == Init /\ [][NextTrim]_vars

\* last_seen texts that strptime rejects: fractional seconds after the
\* seconds, hour 25, and a date without a time
StaleTexts == { <<0, 0, 0, 50, 7>>, <<0, 25, 0, 0>>, <<0>> }

\* device rows of a database file that exists when the server starts: what
\* the schema of init_db admits (device_id UNIQUE NOT NULL, last_seen and
\* created_at NOT NULL), with last_seen written in this or in another format
StoredRows ==
    [device_id : { <<"a">>, <<"b">> }, device_name : { None },
     os_version : { None }, phone_number : { None }, battery_level : OptBattery,
     last_seen : StaleTexts \cup { now_utc_string(StartSec * TicksPerSec) },
     created_at : { now_utc_string(StartSec * TicksPerSec) }]

\* init_db over an existing database file: CREATE TABLE IF NOT EXISTS keeps
\* the rows that are there
InitStored ==
    /\ now = StartSec * TicksPerSec
    /\ devices \in { rows \in SUBSET StoredRows :
                       \A r1, r2 \in rows : r1.device_id = r2.device_id => r1 = r2 }
    /\ commands = {}
    /\ cmdSeq = 0
    /\ last = [op |-> "init", dev |-> <<>>, code |-> 0, cid |-> 0, cmds |-> {},
               views |-> <<>>, flip |-> FALSE]
    /\ dirty = {}
    /\ inflight = [w \in Workers |-> Idle]
    /\ delivered = [i \in {} |-> 0]
    /\ sms_logs = {}
    /\ smsSeq = 0
    /\ form_submissions = {}
    /\ formSeq = 0
    /\ global_settings = DefaultSettings
    /\ data_store = DefaultStore
    /\ data_file = NoFile

\* the registry and the panel's listing over an existing database file
NextStored ==
    \/ \E raw \in { <<"a">>, <<"b">> } : register_device(BareRegister(raw))
    \/ get_devices
    \/ Tick(1, MaxTicks)

SpecStored == InitStored /\ [][NextStored]_vars

\* the device ids of the clients of the JSON-file variant
FileIds == { <<"a">>, <<"b">> }

\* register bodies: with the id alone, without an id, with an empty id
FileRegisterBodies ==
    { [device_id |-> id] : id \in FileIds \cup { <<>> } }
    \cup { [device_name |-> "x"] }

\* SMS bodies: complete, without message_body, with an empty sender
NewSmsBodies ==
    { [sender |-> "+1555", message_body |-> "hi"],
      [sender |-> "+1555"],
      [sender |-> "", message_body |-> "hi"] }

\* form bodies: complete, empty custom_data, no custom_data
FormDetailBodies == { [custom_data |-> "k=v"], [custom_data |-> ""], [other |-> "x"] }

\* registration and telemetry of the JSON-file variant
NextFile ==
    \/ \E device_data \in FileRegisterBodies : file_register_device(device_data)
    \/ \E id \in FileIds, sms_data \in NewSmsBodies : receive_new_sms(id, sms_data)
    \/ \E id \in FileIds, form_data \in FormDetailBodies :
          receive_form_details(id, form_data)
    \/ Tick(TicksPerSec, MaxTicks)

SpecFile == Init /\ [][NextFile]_vars

\* register bodies of the JSON-file variant that carry keys of the stored dict
SyncRegisterBodies ==
    { [device_id |-> <<"a">>],
      [device_id |-> <<"a">>, sms |-> <<>>],
      [device_id |-> <<"a">>, forms |-> <<>>] }

\* all_sms bodies: a list of one complete item, a list of one item without
\* a date, and a body that is no list
SyncSmsBodies ==
    { [is_list |-> TRUE,
       items |-> << [address |-> "+1555", body |-> "old", date |-> "1700"] >>],
      [is_list |-> TRUE, items |-> << [address |-> "+1555", body |-> "old"] >>],
      [is_list |-> FALSE, items |-> <<>>] }

\* the telemetry of one device in both variants, which run side by side
\* with separate state
NextBoth ==
    \/ register_device(BareRegister(<<"a">>))
    \/ \E data \in SmsBodies : log_sms(<<"a">>, data)
    \/ \E data \in FormBodies : submit_form(<<"a">>, data)
    \/ delete_device(<<"a">>)
    \/ \E device_data \in SyncRegisterBodies : file_register_device(device_data)
    \/ receive_new_sms(<<"a">>, [sender |-> "+1555", message_body |-> "hi"])
    \/ receive_form_details(<<"a">>, [custom_data |-> "k=v"])
    \/ \E all_sms_data \in SyncSmsBodies : receive_all_sms(<<"a">>, all_sms_data)

SpecBoth == Init /\ [][NextBoth]_vars

\* register bodies of the JSON-file variant: with the id alone, and with one
\* of the keys created_at, sms and forms beside it
KeyRegisterBodies ==
    { [device_id |-> id] : id \in FileIds }
    \cup { [device_id |-> id, created_at |-> 0] : id \in FileIds }
    \cup { [device_id |-> id, sms |-> <<>>] : id \in FileIds }
    \cup { [device_id |-> id, forms |-> <<>>] : id \in FileIds }

\* registers of the JSON-file variant with such bodies, with the telemetry
\* that fills the lists, and the clock
NextKeys ==
    \/ \E device_data \in KeyRegisterBodies : file_register_device(device_data)
    \/ \E id \in FileIds :
          receive_new_sms(id, [sender |-> "+1555", message_body |-> "hi"])
    \/ \E id \in FileIds : receive_form_details(id, [custom_data |-> "k=v"])
    \/ Tick(TicksPerSec, MaxTicks)

SpecKeys == Init /\ [][NextKeys]_vars

\* the device ids in the paths of the JSON-file variant's requests: texts
PathIds == { <<"a">>, <<"5">> }

\* register bodies whose device_id is a text, the number 5, the empty text,
\* or absent
StoreRegisterBodies ==
    { [device_id |-> id] : id \in PathIds \cup { <<"int", "5">>, <<>> } }
    \cup { [device_name |-> "x"] }

\* bodies of set_sms_forward: complete, with an empty number, without one
ForwardBodies ==
    { [forward_number |-> "+1777"], [forward_number |-> ""], [other |-> "x"] }

\* bodies of set_telegram_config: complete, without chat_id, with an empty
\* bot_token
BotBodies ==
    { [bot_token |-> "t", chat_id |-> "c"], [bot_token |-> "t"],
      [bot_token |-> "", chat_id |-> "c"] }

\* every request of the JSON-file variant that writes the store, with bodies
\* that are complete and bodies that are refused, and the restart of the
\* server process
NextSave ==
    \/ \E device_data \in StoreRegisterBodies : file_register_device(device_data)
    \/ \E id \in PathIds, sms_data \in NewSmsBodies : receive_new_sms(id, sms_data)
    \/ \E form_data \in FormDetailBodies : receive_form_details(<<"a">>, form_data)
    \/ \E all_sms_data \in SyncSmsBodies : receive_all_sms(<<"a">>, all_sms_data)
    \/ \E config \in ForwardBodies : admin_set_sms_forward(config)
    \/ \E config \in BotBodies : admin_set_telegram_config(config)
    \/ load_data

SpecSave == Init /\ [][NextSave]_vars

\* form rows of a database file that exists when the server starts: one of
\* device a stored a second before the start, then one of device b and
\* another of device a
StoredForms ==
    { [id |-> 1, device_id |-> <<"a">>, custom_data |-> "k=v",
       submitted_at |-> now_utc_string((StartSec - 1) * TicksPerSec)],
      [id |-> 2, device_id |-> <<"b">>, custom_data |-> "k=v",
       submitted_at |-> now_utc_string(StartSec * TicksPerSec)],
      [id |-> 3, device_id |-> <<"a">>, custom_data |-> "x=y",
       submitted_at |-> now_utc_string(StartSec * TicksPerSec)] }

\* init_db over a database file that holds the first n of these forms
InitOrder ==
    /\ now = StartSec * TicksPerSec
    /\ devices = {}
    /\ commands = {}
    /\ cmdSeq = 0
    /\ last = [op |-> "init", dev |-> <<>>, code |-> 0, cid |-> 0, cmds |-> {},
               views |-> <<>>, flip |-> FALSE]
    /\ dirty = {}
    /\ inflight = [w \in Workers |-> Idle]
    /\ delivered = [i \in {} |-> 0]
    /\ sms_logs = {}
    /\ smsSeq = 0
    /\ \E n \in 0..Cardinality(StoredForms) :
          /\ form_submissions = { r \in StoredForms : r.id <= n }
          /\ formSeq = n
    /\ global_settings = DefaultSettings
    /\ data_store = DefaultStore
    /\ data_file = NoFile

\* the telemetry and its listings, with the clock
NextOrder ==
    \/ \E raw \in LogIds, data \in SmsBodies : log_sms(raw, data)
    \/ \E raw \in LogIds, data \in FormBodies : submit_form(raw, data)
    \/ \E raw \in LogIds : get_sms_logs(raw)
    \/ \E raw \in LogIds : get_form_submissions(raw)
    \/ Tick(1, MaxTicks)

SpecOrder == InitOrder /\ [][NextOrder]_vars

\* a database that holds SMS entries from earlier runs: device "a" has one entry
\* more than the listing returns, the two oldest logged within one second, and
\* device "b" has the newest entry of the table
StoredSms ==
    { [id |-> i, device_id |-> << "a" >>, sender |-> "+1555", message_body |-> "hi",
       received_at |-> now_utc_string((StartSec + (IF i = 1 THEN 2 ELSE i)) * TicksPerSec)] :
      i \in 1..(SmsLimit + 1) } \cup
    { [id |-> SmsLimit + 2, device_id |-> << "b" >>, sender |-> "+1555",
       message_body |-> "hi",
       received_at |-> now_utc_string((StartSec + SmsLimit + 2) * TicksPerSec)] }

\* the start with none, all but two, or all of the stored SMS entries
InitCap ==
    /\ now = (StartSec + SmsLimit + 3) * TicksPerSec
    /\ devices = {}
    /\ commands = {}
    /\ cmdSeq = 0
    /\ last = [op |-> "init", dev |-> <<>>, code |-> 0, cid |-> 0, cmds |-> {},
               views |-> <<>>, flip |-> FALSE]
    /\ dirty = {}
    /\ inflight = [w \in Workers |-> Idle]
    /\ delivered = [i \in {} |-> 0]
    /\ \E n \in { 0, SmsLimit, SmsLimit + 2 } :
          /\ sms_logs = { r \in StoredSms : r.id <= n }
          /\ smsSeq = n
    /\ form_submissions = {}
    /\ formSeq = 0
    /\ global_settings = DefaultSettings
    /\ data_store = DefaultStore
    /\ data_file = NoFile

\* the SMS log and its listing, with the clock
NextCap ==
    \/ \E raw \in LogIds, data \in SmsBodies : log_sms(raw, data)
    \/ \E raw \in LogIds : get_sms_logs(raw)
    \/ Tick(1, (SmsLimit + 3) * TicksPerSec + MaxTicks)

SpecCap == InitCap /\ [][NextCap]_vars

SettingsSendRequests ==
    [device_id : { << "a" >> }, command_type : CommandTypes,
     command_data : { << <<"message", "hi">> >> }]

\* the settings next to the operations of one device
NextSettings ==
    \/ \E data \in SmsForwardBodies : update_sms_forward_config(data)
    \/ \E data \in TelegramBodies : update_telegram_config(data)
    \/ get_sms_forward_config
    \/ get_telegram_config
    \/ register_device(BareRegister(<< "a" >>))
    \/ delete_device(<< "a" >>)
    \/ \E data \in SettingsSendRequests : send_command(data)
    \/ get_pending_commands(<< "a" >>)
    \/ \E data \in SmsBodies : log_sms(<< "a" >>, data)
    \/ \E data \in FormBodies : submit_form(<< "a" >>, data)

SpecSettings == Init /\ [][NextSettings]_vars

ShownRequests ==
    [device_id : LogIds, device_name : OptNames, os_version : { None },
     phone_number : { None, Some("+1555") }, battery_level : OptBattery]

\* devices registered with and without their optional fields, and the panel's
\* listing
NextShown ==
    \/ \E data \in ShownRequests : register_device(data)
    \/ \E data \in SettingsSendRequests : send_command(data)
    \/ get_devices

SpecShown == Init /\ [][NextShown]_vars

\* one device that registers and then polls, executes and logs while the panel
\* sends, lists and configures, over more than the online threshold; the device
\* is sent one command and logs one SMS and one form
NextIdle ==
    \/ register_device(BareRegister(<< "a" >>))
    \/ \E data \in SettingsSendRequests : cmdSeq = 0 /\ send_command(data)
    \/ get_pending_commands(<< "a" >>)
    \/ mark_command_executed(1)
    \/ \E data \in SmsBodies : smsSeq = 0 /\ log_sms(<< "a" >>, data)
    \/ \E data \in FormBodies : formSeq = 0 /\ submit_form(<< "a" >>, data)
    \/ get_devices
    \/ update_sms_forward_config([forward_number |-> "111"])
    \/ get_sms_forward_config
    \/ Tick((ONLINE_THRESHOLD_SECONDS \div 2) * TicksPerSec, MaxLiveSec * TicksPerSec)

SpecIdle == Init /\ [][NextIdle]_vars

\* one device that is registered, deleted and registered again, with what is
\* logged and sent under its id before, between and after, and the clock
NextFresh ==
    \/ register_device(BareRegister(<< "a" >>))
    \/ delete_device(<< "a" >>)
    \/ \E data \in SmsBodies : log_sms(<< "a" >>, data)
    \/ \E data \in FormBodies : submit_form(<< "a" >>, data)
    \/ \E data \in SettingsSendRequests : send_command(data)
    \/ Tick(1, MaxTicks)

SpecFresh == Init /\ [][NextFresh]_vars

\* two devices that are sent commands, poll and execute, next to a registered
\* device, an SMS log, a form and a setting
NextFrame ==
    \/ register_device(BareRegister(<< "a" >>))
    \/ \E data \in SmsBodies : smsSeq = 0 /\ log_sms(<< "b" >>, data)
    \/ \E data \in FormBodies : formSeq = 0 /\ submit_form(<< "a" >>, data)
    \/ update_sms_forward_config([forward_number |-> "111"])
    \/ \E data \in LogSendRequests : send_command(data)
    \/ \E raw \in LogIds : get_pending_commands(raw)
    \/ \E id \in 1..MaxCmds : mark_command_executed(id)

SpecFrame == Init /\ [][NextFrame]_vars

\* devices.device_id is UNIQUE: an INSERT of a second row with the id raises
\* sqlite3.IntegrityError
UniqueViolation(tbl, row) == \E r \in tbl : r.device_id = row.device_id

\* register_device up to the SELECT of the device row
reg_select(w, data) ==
    /\ inflight[w].pc = "idle"
    /\ inflight' = [inflight EXCEPT ![w] =
           [pc |-> "reg_selected", dev |-> data.device_id,
            rows |-> SelectDevice(devices, Strip(data.device_id)),
            data |-> data, ts |-> now_utc_string(now)]]
    /\ UNCHANGED <<now, devices, last, queueVars, logVars, global_settings, fileVars>>

\* register_device from the UPDATE or INSERT to the response; the handler
\* catches no exception, so the IntegrityError of the INSERT is answered 500
\* and nothing is committed
reg_write(w) ==
    LET data == inflight[w].data
        clean_device_id == Strip(data.device_id)
        row == NewDeviceRow(data, clean_device_id, inflight[w].ts)
    IN  /\ inflight[w].pc = "reg_selected"
        /\ IF inflight[w].rows # {}
           THEN /\ devices' = UpdateDevice(devices, clean_device_id, data,
                                           inflight[w].ts)
                /\ last' = Response("register", data.device_id, 200)
           ELSE IF UniqueViolation(devices, row)
           THEN /\ devices' = devices
                /\ last' = Response("register", data.device_id, 500)
           ELSE /\ devices' = InsertDevice(devices, row)
                /\ last' = Response("register", data.device_id, 200)
        /\ inflight' = [inflight EXCEPT ![w] = Idle]
        /\ UNCHANGED <<now, queueVars, logVars, global_settings, fileVars>>

\* the device ids of the clients that register at the same time
RaceIds == { <<"a">>, <<SP, "a">> }

RaceRequests ==
    [device_id : RaceIds, device_name : { None }, os_version : { None },
     phone_number : { None }, battery_level : OptBattery]

\* the registry served by the worker processes
NextRace ==
    \/ \E w \in Workers, data \in RaceRequests : reg_select(w, data)
    \/ \E w \in Workers : reg_write(w)
    \/ \E raw \in RaceIds : SomeIdle /\ delete_device(raw)

SpecRace == Init /\ [][NextRace]_vars

\* delete_device up to the SELECT of the device row, which runs outside a
\* transaction
del_select(w, device_id) ==
    /\ inflight[w].pc = "idle"
    /\ inflight' = [inflight EXCEPT ![w] =
           [pc |-> "del_selected", dev |-> device_id,
            rows |-> SelectDevice(devices, Strip(device_id))]]
    /\ UNCHANGED <<now, devices, last, queueVars, logVars, global_settings, fileVars>>

\* delete_device from the test of the row to the response: the four DELETEs run
\* in the transaction that sqlite3 opens at the first of them and conn.commit()
\* ends, so other connections see them together
del_write(w) ==
    LET clean_device_id == Strip(inflight[w].dev)
    IN  /\ inflight[w].pc = "del_selected"
        /\ IF inflight[w].rows = {}
           THEN /\ last' = Response("delete", inflight[w].dev, 404)
                /\ UNCHANGED <<devices, queueVars, logVars>>
           ELSE /\ devices' = DeleteWhereDevice(devices, clean_device_id)
                /\ sms_logs' = DeleteWhereDevice(sms_logs, clean_device_id)
                /\ form_submissions' =
                      DeleteWhereDevice(form_submissions, clean_device_id)
                /\ commands' = DeleteWhereDevice(commands, clean_device_id)
                /\ delivered' = [i \in { r.id : r \in commands' } |-> delivered[i]]
                /\ last' = Response("delete", inflight[w].dev, 200)
                /\ UNCHANGED <<cmdSeq, dirty, smsSeq, formSeq>>
        /\ inflight' = [inflight EXCEPT ![w] = Idle]
        /\ UNCHANGED <<now, global_settings, fileVars>>

\* no worker is at the given point of a handler
NoneAt(pc) == \A w \in Workers : inflight[w].pc # pc

\* one device that is registered, sent commands and deleted by the panel, one
\* request after the other, while it logs and polls, one request after the
\* other; the panel's and the device's requests are served at the same time
NextDel ==
    \/ SomeIdle /\ register_device(BareRegister(<< "a" >>))
    \/ \E data \in SettingsSendRequests : SomeIdle /\ send_command(data)
    \/ \E data \in SmsBodies : smsSeq = 0 /\ SomeIdle /\ log_sms(<< "a" >>, data)
    \/ \E data \in FormBodies : SomeIdle /\ submit_form(<< "a" >>, data)
    \/ \E w \in Workers : NoneAt("del_selected") /\ del_select(w, << "a" >>)
    \/ \E w \in Workers : del_write(w)
    \/ \E w \in Workers : NoneAt("poll_selected") /\ poll_select(w, << "a" >>)
    \/ \E w \in Workers : poll_update(w)

SpecDel == Init /\ [][NextDel]_vars

\* no request of the device is being handled
AllIdle == \A w \in Workers : inflight[w].pc = "idle"

\* one device that polls, one request after the other, with the panel's sends
\* and its delete and the executes, served by the worker processes
NextFair ==
    \/ SomeIdle /\ register_device(BareRegister(<< "a" >>))
    \/ SomeIdle /\ delete_device(<< "a" >>)
    \/ \E data \in SettingsSendRequests : SomeIdle /\ send_command(data)
    \/ \E w \in Workers : AllIdle /\ poll_select(w, << "a" >>)
    \/ \E w \in Workers : poll_update(w)
    \/ \E id \in 1..MaxCmds : SomeIdle /\ mark_command_executed(id)

\* the device keeps polling: it sends its next poll once it has the response of
\* the one before, and a handler that has run its SELECT runs on to its response
SpecFair ==
    /\ Init
    /\ [][NextFair]_vars
    /\ WF_vars(\E w \in Workers : AllIdle /\ poll_select(w, << "a" >>))
    /\ WF_vars(\E w \in Workers : poll_update(w))

-----------------------------------------------------------------------------
(* Properties *)

\* the step completes a request of kind op
Completes(op) == last'.flip # last.flip /\ last'.op = op

\* the place of a status in the order pending, sent, executed
StatusRank(status) ==
    CASE status = "pending" -> 0
      [] status = "sent" -> 1
      [] status = "executed" -> 2

\* C1: under atomic send, poll, execute and delete steps, no step moves the
\* status of a command that still exists backwards in the order pending,
\* sent, executed.
C1_StatusMovesForward ==
    [][ \A old \in commands : \A new \in commands' :
            new.id = old.id => StatusRank(new.status) >= StatusRank(old.status) ]_vars

\* C1 witness: a poll was answered for a device that has an executed command
C1_Witness ==
    /\ last.op = "poll"
    /\ \E r \in commands : r.device_id = Strip(last.dev) /\ r.status = "executed"
    /\ \E r \in commands : r.device_id = Strip(last.dev) /\ r.status = "sent"

\* C2: a poll that directly follows a send for the same (stripped) device id
\* returns the new command and leaves it sent; a poll for a device id with no
\* send since its previous poll returns the empty list.
C2_SendPollPoll ==
    [][ /\ (last.op = "send" /\ Completes("poll")
            /\ Strip(last'.dev) = Strip(last.dev))
           => /\ \E e \in last'.cmds : e.id = last.cid
              /\ \E r \in commands' : r.id = last.cid /\ r.status = "sent"
        /\ (Completes("poll") /\ Strip(last'.dev) \notin dirty)
           => last'.cmds = {} ]_vars

\* C2 witness: a second poll returned nothing after a first one had returned
\* the command, which is sent
C2_Witness ==
    /\ last.op = "poll"
    /\ last.cmds = {}
    /\ \E r \in commands :
          /\ r.device_id = Strip(last.dev)
          /\ r.status = "sent"
          /\ delivered[r.id] = 1

\* C3: under every interleaving of the workers' polls no command is carried by
\* more than one poll response.
C3_DeliveredOnce == \A i \in DOMAIN delivered : delivered[i] <= 1

\* C4: a poll returns exactly the commands whose device id is the stripped
\* polled id and whose status is pending when the poll is made.
C4_PollReturnsPending ==
    [][ Completes("poll") =>
          /\ { e.id : e \in last'.cmds } =
                { r.id : r \in { x \in commands :
                                   /\ x.device_id = Strip(last'.dev)
                                   /\ x.status = "pending" } }
          /\ \A e \in last'.cmds : \E r \in commands :
                r.id = e.id /\ r.command_type = e.command_type ]_vars

\* C4 witness: a poll returned a command while another device's command stayed
\* pending
C4_Witness ==
    /\ last.op = "poll"
    /\ last.cmds # {}
    /\ \E r \in commands : r.device_id # Strip(last.dev) /\ r.status = "pending"

\* the rows whose device id, stripped, is d
RecordsOf(tbl, d) == { r \in tbl : Strip(r.device_id) = d }

\* the step is a successful delete of the device d
Deletes(d) ==
    Completes("delete") /\ last'.code = 200 /\ Strip(last'.dev) = d

\* C5: there is never more than one device row per stripped identifier; a
\* successful register leaves exactly one row for its identifier, and that
\* row stays until a successful delete of the identifier.
C5_OneRecordPerId ==
    [][ /\ \A r \in devices' : Cardinality(RecordsOf(devices', Strip(r.device_id))) = 1
        /\ (Completes("register") /\ last'.code = 200)
           => Cardinality(RecordsOf(devices', Strip(last'.dev))) = 1
        /\ \A r \in devices :
              ~Deletes(Strip(r.device_id))
              => Cardinality(RecordsOf(devices', Strip(r.device_id))) = 1 ]_vars

\* C5 witness: the same device was registered again under an id with
\* surrounding whitespace, while another device is registered
C5_Witness ==
    /\ last.op = "register"
    /\ last.code = 200
    /\ last.dev # Strip(last.dev)
    /\ Cardinality(devices) = 2
    /\ \E r \in devices : r.device_id = Strip(last.dev) /\ r.last_seen # r.created_at

\* C6: a register for an existing device leaves created_at as it was and
\* stores the second of the call as last_seen; the register that creates the
\* row stores the second of the call in both; no other step changes either.
C6_CreatedKeptLastSeenSet ==
    [][ /\ (Completes("register") /\ last'.code = 200)
           => \A new \in RecordsOf(devices', Strip(last'.dev)) :
                /\ strptime(new.last_seen) <= now
                /\ now < strptime(new.last_seen) + TicksPerSec
                /\ RecordsOf(devices, Strip(last'.dev)) = {}
                   => new.created_at = new.last_seen
                /\ \A old \in RecordsOf(devices, Strip(last'.dev)) :
                      new.created_at = old.created_at
        /\ ~(Completes("register") /\ last'.code = 200)
           => \A old \in devices : \A new \in devices' :
                new.device_id = old.device_id
                => new.created_at = old.created_at /\ new.last_seen = old.last_seen
      ]_vars

\* C6 witness: a register found the row and moved last_seen past created_at
C6_Witness ==
    /\ last.op = "register"
    /\ \E r \in devices :
          /\ r.device_id = Strip(last.dev)
          /\ TextLess(r.created_at, r.last_seen)
          /\ r.last_seen = now_utc_string(now)

\* the optional columns of a device row or of a register body
OptionalFields(r) ==
    <<r.device_name, r.os_version, r.phone_number, r.battery_level>>

C8_OnlineIffWithinThreshold ==
    [][ Completes("list") =>
          \A i \in DOMAIN last'.views :
             LET view == last'.views[i]
                 elapsed == now - strptime(view.last_seen)
             IN  /\ \E r \in devices :
                       r.device_id = view.device_id /\ r.last_seen = view.last_seen
                 /\ view.is_online <=> elapsed < 20 * TicksPerSec
                 /\ elapsed < TicksPerSec => view.is_online
                 /\ elapsed = 20 * TicksPerSec => ~view.is_online
                 /\ elapsed >= 21 * TicksPerSec => ~view.is_online ]_vars

\* C8 witness: a listing made exactly 20 seconds after last_seen shows the
\* device as offline
C8_Witness ==
    /\ last.op = "list"
    /\ \E i \in DOMAIN last.views :
          /\ ~last.views[i].is_online
          /\ now - strptime(last.views[i].last_seen) = 20 * TicksPerSec

\* C9: a register whose device id is empty after stripping is answered 400
\* and creates or changes no device row.
C9_EmptyIdRejected ==
    [][ (Completes("register") /\ Strip(last'.dev) = <<>>)
        => last'.code = 400 /\ devices' = devices ]_vars

\* C10: a send succeeds whether or not its device id has a device row; it
\* creates one pending command under the stripped id, and a poll for that id
\* that comes next returns the command.
C10_SendAlwaysSucceeds ==
    [][ /\ Completes("send")
           => /\ last'.code = 200
              /\ \E r \in commands' \ commands :
                    /\ r.id = last'.cid
                    /\ r.status = "pending"
                    /\ r.device_id = Strip(last'.dev)
                    /\ commands' = commands \cup { r }
        /\ (last.op = "send" /\ Completes("poll")
            /\ Strip(last'.dev) = Strip(last.dev)
            /\ SelectDevice(devices, Strip(last.dev)) = {})
           => \E e \in last'.cmds : e.id = last.cid ]_vars

\* C10 witness: after some device was deleted with its commands, a poll
\* returned a command sent to a device id that has no device row
C10_Witness ==
    /\ last.op = "poll"
    /\ \E e \in last.cmds : e.id = cmdSeq
    /\ SelectDevice(devices, Strip(last.dev)) = {}
    /\ Cardinality(commands) < cmdSeq

\* C11: an execute for an existing command leaves it executed whatever its
\* status was and changes no other command; a command that is executed is
\* in no later poll response, also when it was executed while pending.
C11_ExecuteUnconditional ==
    [][ /\ Completes("execute")
           => /\ \A old \in commands :
                    old.id = last'.cid
                    => [old EXCEPT !.status = "executed"] \in commands'
              /\ \A old \in commands : old.id # last'.cid => old \in commands'
              /\ Cardinality(commands') = Cardinality(commands)
        /\ \A old \in commands :
              old.status = "executed"
              => /\ \A new \in commands' : new.id = old.id => new.status = "executed"
                 /\ Completes("poll") => \A e \in last'.cmds : e.id # old.id ]_vars

\* C11 witness: a poll for the device of a command that was executed while
\* pending (no response ever carried it) returned nothing
C11_Witness ==
    /\ last.op = "poll"
    /\ last.cmds = {}
    /\ \E r \in commands :
          /\ r.device_id = Strip(last.dev)
          /\ r.status = "executed"
          /\ delivered[r.id] = 0

\* the stored tables
tables == <<devices, commands, sms_logs, form_submissions, global_settings>>

\* C12: a delete for an id that has no device row is answered 404 and leaves
\* every table as it was, also the SMS logs, forms and commands stored under
\* that id; a delete is answered 404 in no other case.
C12_DeleteUnknownNotFound ==
    [][ Completes("delete")
        => /\ (RecordsOf(devices, Strip(last'.dev)) = {}) <=> (last'.code = 404)
           /\ last'.code = 404 => tables' = tables ]_vars

\* C12 witness: a delete was answered 404 while SMS logs, forms and commands
\* are stored under its id
C12_Witness ==
    /\ last.op = "delete"
    /\ last.code = 404
    /\ RecordsOf(devices, Strip(last.dev)) = {}
    /\ RecordsOf(sms_logs, Strip(last.dev)) # {}
    /\ RecordsOf(form_submissions, Strip(last.dev)) # {}
    /\ RecordsOf(commands, Strip(last.dev)) # {}

\* the rows of a table that are not stored under the identifier d
RowsOfOthers(tbl, d) == { r \in tbl : Strip(r.device_id) # d }

\* C13: a successful delete of d leaves no device row, SMS log, form or
\* command of d and keeps every row of every other device as it was; in the
\* state it leaves, the device listing has no entry for d and the SMS
\* listing, the form listing and the poll of d are empty.
C13_DeleteCascades ==
    [][ (Completes("delete") /\ last'.code = 200)
        => LET d == Strip(last'.dev)
           IN  /\ RecordsOf(devices', d) = {}
               /\ RecordsOf(sms_logs', d) = {}
               /\ RecordsOf(form_submissions', d) = {}
               /\ RecordsOf(commands', d) = {}
               /\ devices' = RowsOfOthers(devices, d)
               /\ sms_logs' = RowsOfOthers(sms_logs, d)
               /\ form_submissions' = RowsOfOthers(form_submissions, d)
               /\ commands' = RowsOfOthers(commands, d)
               /\ \A rows \in OrderByLastSeenDesc(devices') :
                     \A i \in DOMAIN rows :
                        DeviceResponse(rows[i], now').device_id # d
               /\ OrderByReceivedAtDesc(SelectLogs(sms_logs', d)) = { <<>> }
               /\ OrderBySubmittedAtDesc(SelectLogs(form_submissions', d)) = { <<>> }
               /\ SelectPending(commands', d) = {} ]_vars

\* C13 witness: a delete succeeded; an SMS log, the form and a command are
\* gone, while a device, an SMS log and a command of another device are
\* still stored
C13_Witness ==
    /\ last.op = "delete"
    /\ last.code = 200
    /\ Cardinality(sms_logs) < smsSeq
    /\ Cardinality(form_submissions) < formSeq
    /\ Cardinality(commands) < cmdSeq
    /\ devices # {}
    /\ sms_logs # {}
    /\ commands # {}

\* C14: a register that found no device row at its existence check succeeds
\* and leaves one row for its id with the fields it sent, also when another
\* register for the id wrote between the check and the write.
C14_LastWriterWins ==
    [][ \A w \in Workers :
           ( /\ inflight[w].pc = "reg_selected"
             /\ inflight'[w].pc = "idle"
             /\ inflight[w].rows = {} )
           => /\ last'.code = 200
              /\ Cardinality(RecordsOf(devices', Strip(inflight[w].dev))) = 1
              /\ \A r \in RecordsOf(devices', Strip(inflight[w].dev)) :
                    OptionalFields(r) = OptionalFields(inflight[w].data) ]_vars

\* C15: a send stores a command whose text deserialises to the payload that
\* was sent, with the type that was sent; no step changes the type or the
\* text of a stored command; and a poll returns, for each command it
\* carries, the stored type and the deserialised stored text.  So the
\* payload and type a poll returns are those given to the send.
C15_PayloadRoundTrip ==
    [][ /\ \A data \in PanelRequests :
              send_command(data)
              => \E r \in commands' :
                    /\ r.id = last'.cid
                    /\ r \notin commands
                    /\ json_loads(r.command_data) = data.command_data
                    /\ r.command_type = data.command_type
        /\ \A old \in commands : \A new \in commands' :
              new.id = old.id
              => /\ new.command_data = old.command_data
                 /\ new.command_type = old.command_type
        /\ Completes("poll")
           => \A e \in last'.cmds :
                 \E r \in commands :
                    /\ r.id = e.id
                    /\ e.command_type = r.command_type
                    /\ e.command_data = json_loads(r.command_data) ]_vars

\* C15 witness: a poll returned a command with a payload of two pairs
C15_Witness ==
    /\ last.op = "poll"
    /\ \E e \in last.cmds :
          /\ e.command_type = "send_sms"
          /\ e.command_data = << <<"phone_number", "+1555">>, <<"message", "hi">> >>

\* the rows a table stores under exactly the identifier d
StoredUnder(tbl, d) == { r \in tbl : r.device_id = d }

\* C16: every stored device id is trimmed, and each operation acts on the
\* rows stored under the trimmed form of the id it was given: register
\* leaves the device row of the trimmed id, enqueue, logSms and submitForm
\* store their row under it, pollPending, listSms and listForms return the
\* rows stored under it, and deleteDevice looks up and removes the rows
\* stored under it.
C16_IdsTrimmed ==
    [][ LET d == Strip(last'.dev)
        IN  /\ \A r \in devices' : Strip(r.device_id) = r.device_id
            /\ \A r \in commands' : Strip(r.device_id) = r.device_id
            /\ \A r \in sms_logs' : Strip(r.device_id) = r.device_id
            /\ \A r \in form_submissions' : Strip(r.device_id) = r.device_id
            /\ (Completes("register") /\ last'.code = 200)
               => Cardinality(StoredUnder(devices', d)) = 1
            /\ Completes("send")
               => \E r \in StoredUnder(commands', d) :
                     r.id = last'.cid /\ r \notin commands
            /\ Completes("poll")
               => { e.id : e \in last'.cmds }
                  = { r.id : r \in { x \in StoredUnder(commands, d) :
                                        x.status = "pending" } }
            /\ Completes("log_sms")
               => \E r \in StoredUnder(sms_logs', d) : r \notin sms_logs
            /\ Completes("submit_form")
               => \E r \in StoredUnder(form_submissions', d) :
                     r \notin form_submissions
            /\ (Completes("get_sms") /\ Cardinality(StoredUnder(sms_logs, d)) <= SmsLimit)
               => { last'.views[i].id : i \in DOMAIN last'.views }
                  = { r.id : r \in StoredUnder(sms_logs, d) }
            /\ Completes("get_forms")
               => { last'.views[i].id : i \in DOMAIN last'.views }
                  = { r.id : r \in StoredUnder(form_submissions, d) }
            /\ Completes("delete")
               => /\ (last'.code = 200) <=> (StoredUnder(devices, d) # {})
                  /\ last'.code = 200
                     => /\ StoredUnder(devices', d) = {}
                        /\ StoredUnder(commands', d) = {}
                        /\ StoredUnder(sms_logs', d) = {}
                        /\ StoredUnder(form_submissions', d) = {} ]_vars

\* C16 witness: the SMS listing asked for under an id with surrounding
\* whitespace returned a log, while the device, a form and a command are
\* stored for the trimmed id
C16_Witness ==
    /\ last.op = "get_sms"
    /\ last.dev = <<SP, "a", SP>>
    /\ last.views # <<>>
    /\ StoredUnder(devices, <<"a">>) # {}
    /\ StoredUnder(form_submissions, <<"a">>) # {}
    /\ StoredUnder(commands, <<"a">>) # {}

\* C17: a listing is answered 200 with one entry for every device row, also
\* when the last_seen of some row does not parse, and the entry of such a
\* row shows the device as offline.
C17_UnparseableIsOffline ==
    [][ Completes("list")
        => /\ last'.code = 200
           /\ Len(last'.views) = Cardinality(devices)
           /\ \A r \in devices :
                 \E i \in DOMAIN last'.views :
                    /\ last'.views[i].device_id = r.device_id
                    /\ last'.views[i].last_seen = r.last_seen
                    /\ ~Parseable(r.last_seen) => ~last'.views[i].is_online ]_vars

\* C17 witness: a listing shows two devices, one with a last_seen that does
\* not parse, which is offline, and one that is online
C17_Witness ==
    /\ last.op = "list"
    /\ Len(last.views) = 2
    /\ \E i, j \in DOMAIN last.views :
          /\ ~Parseable(last.views[i].last_seen)
          /\ ~last.views[i].is_online
          /\ last.views[j].is_online

\* C18: logSms and submitForm are answered 200 whether or not their id has a
\* device row; they add one entry stored under the id and leave the devices
\* table as it was; listSms and listForms return the entries stored under
\* their id whether or not it has a device row.
C18_LogsForUnknownDevice ==
    [][ LET d == Strip(last'.dev)
        IN  /\ Completes("log_sms")
               => /\ last'.code = 200
                  /\ devices' = devices
                  /\ \E r \in StoredUnder(sms_logs', d) :
                        r \notin sms_logs /\ sms_logs' = sms_logs \cup { r }
            /\ Completes("submit_form")
               => /\ last'.code = 200
                  /\ devices' = devices
                  /\ \E r \in StoredUnder(form_submissions', d) :
                        /\ r \notin form_submissions
                        /\ form_submissions' = form_submissions \cup { r }
            /\ (Completes("get_sms") /\ Cardinality(StoredUnder(sms_logs, d)) <= SmsLimit)
               => /\ last'.code = 200
                  /\ { last'.views[i] : i \in DOMAIN last'.views }
                     = { SmsEntry(r) : r \in StoredUnder(sms_logs, d) }
            /\ Completes("get_forms")
               => /\ last'.code = 200
                  /\ { last'.views[i] : i \in DOMAIN last'.views }
                     = { FormEntry(r) : r \in StoredUnder(form_submissions, d) } ]_vars

\* C18 witness: the form listing of an id returned a form while no device
\* is registered, and SMS logs are stored under the id as well
C18_Witness ==
    /\ last.op = "get_forms"
    /\ last.views # <<>>
    /\ devices = {}
    /\ StoredUnder(sms_logs, Strip(last.dev)) # {}
    /\ formSeq = 1

\* the step completes a logSms or a submitForm of the JSON-file variant for a
\* device id that is not registered
LogsUnregistered ==
    /\ Completes("new_sms") \/ Completes("form_details")
    /\ last'.dev \notin DOMAIN data_store.devices

\* C19 as claimed: logSms and submitForm of the JSON-file variant for an id
\* that is not registered are answered 404 and leave the store unchanged.
C19_UnregisteredIs404 ==
    [][ LogsUnregistered => last'.code = 404 /\ fileVars' = fileVars ]_vars

\* the body of a logSms carries a non-empty sender and message_body
SmsComplete(sms_data) ==
    /\ "sender" \in DOMAIN sms_data /\ sms_data.sender # ""
    /\ "message_body" \in DOMAIN sms_data /\ sms_data.message_body # ""

\* the body of a submitForm carries a non-empty custom_data
FormComplete(form_data) ==
    "custom_data" \in DOMAIN form_data /\ form_data.custom_data # ""

\* C19 amended: logSms and submitForm of the JSON-file variant for an id that
\* is not registered leave the store and the file unchanged; they are
\* answered 404 when the body carries its required fields, and 400 when a
\* required field is absent or empty.
C19_UnregisteredRefused ==
    [][ /\ LogsUnregistered => fileVars' = fileVars
        /\ \A id \in FileIds :
              id \notin DOMAIN data_store.devices
              => /\ \A sms_data \in NewSmsBodies :
                       receive_new_sms(id, sms_data)
                       => last'.code = IF SmsComplete(sms_data) THEN 404 ELSE 400
                 /\ \A form_data \in FormDetailBodies :
                       receive_form_details(id, form_data)
                       => last'.code = IF FormComplete(form_data) THEN 404 ELSE 400 ]_vars

\* C19 witness: a submitForm for an id that is not registered was answered
\* 404 while another device is registered and has an SMS stored
C19_Witness ==
    /\ last.op = "form_details"
    /\ last.code = 404
    /\ last.dev \notin DOMAIN data_store.devices
    /\ \E id \in DOMAIN data_store.devices : data_store.devices[id].sms # <<>>

\* the sequence s is the beginning of the sequence t
IsPrefix(s, t) == Len(s) <= Len(t) /\ SubSeq(t, 1, Len(s)) = s

\* SQLite variant: every stored SMS log and form stays as it is, but for the
\* rows of a device that a successful delete of that device removes
RowsKept ==
    /\ \A r \in sms_logs : r \in sms_logs' \/ Deletes(r.device_id)
    /\ \A r \in form_submissions : r \in form_submissions' \/ Deletes(r.device_id)

\* C20 as claimed: in both variants an SMS log entry or form, once stored,
\* stays as it is and is removed only by a delete of its device.
C20_AppendOnly ==
    [][ /\ RowsKept
        /\ \A id \in DOMAIN data_store.devices :
              /\ id \in DOMAIN data_store'.devices
              /\ IsPrefix(data_store.devices[id].sms, data_store'.devices[id].sms)
              /\ IsPrefix(data_store.devices[id].forms,
                          data_store'.devices[id].forms) ]_vars

\* C20 amended: the SQLite variant is append-only as claimed.  In the
\* JSON-file variant no device is removed, and a device's stored SMS entries
\* and forms stay as they are at the head of their lists, except that a
\* successful all_sms request for the device replaces its SMS list, and a
\* register for the device whose body carries the key sms or forms replaces
\* that list.
C20_AppendOnlyButSync ==
    [][ /\ RowsKept
        /\ \A id \in DOMAIN data_store.devices :
              /\ id \in DOMAIN data_store'.devices
              /\ \/ IsPrefix(data_store.devices[id].sms, data_store'.devices[id].sms)
                 \/ Completes("all_sms") /\ last'.code = 200 /\ last'.dev = id
                 \/ \E device_data \in SyncRegisterBodies :
                       /\ file_register_device(device_data)
                       /\ device_data.device_id = id
                       /\ "sms" \in DOMAIN device_data
              /\ \/ IsPrefix(data_store.devices[id].forms,
                             data_store'.devices[id].forms)
                 \/ \E device_data \in SyncRegisterBodies :
                       /\ file_register_device(device_data)
                       /\ device_data.device_id = id
                       /\ "forms" \in DOMAIN device_data ]_vars

\* C20 witness: a second SMS log was stored beside the first in the SQLite
\* variant, which also holds a form, while the device of the JSON-file
\* variant holds two SMS entries
C20_Witness ==
    /\ last.op = "log_sms"
    /\ Cardinality(sms_logs) = 2
    /\ form_submissions # {}
    /\ \E id \in DOMAIN data_store.devices : Len(data_store.devices[id].sms) = 2

\* C21: the SMS listing and the form listing of d return entries of rows
\* stored under d only, each row at most once, with no entry placed before
\* one of a later receipt time; the form listing returns every form of d.
C21_ListingsNewestFirst ==
    [][ LET d == Strip(last'.dev)
            v == last'.views
        IN  /\ Completes("get_sms")
               => /\ \A i \in DOMAIN v :
                        \E r \in StoredUnder(sms_logs, d) : v[i] = SmsEntry(r)
                  /\ \A i, j \in DOMAIN v :
                        i < j => /\ v[i].id # v[j].id
                                 /\ strptime(v[i].received_at) >= strptime(v[j].received_at)
            /\ Completes("get_forms")
               => /\ \A i \in DOMAIN v :
                        \E r \in StoredUnder(form_submissions, d) : v[i] = FormEntry(r)
                  /\ \A i, j \in DOMAIN v :
                        i < j => /\ v[i].id # v[j].id
                                 /\ strptime(v[i].submitted_at) >= strptime(v[j].submitted_at)
                  /\ \A r \in StoredUnder(form_submissions, d) :
                        \E i \in DOMAIN v : v[i].id = r.id ]_vars

\* C21 witness: the form listing of a device returned its two forms, the
\* later one first, while a form of another device and SMS logs are stored
C21_Witness ==
    /\ last.op = "get_forms"
    /\ Len(last.views) = 2
    /\ strptime(last.views[1].submitted_at) > strptime(last.views[2].submitted_at)
    /\ Cardinality(form_submissions) = 3
    /\ sms_logs # {}

\* C22: the SMS listing of a device has at most 500 entries, all of them entries
\* of the device; when the device has more, exactly 500 are returned and no
\* entry that is left out was received later than one that is returned
C22_SmsListingCapped ==
    [][\A d \in LogIds :
          Completes("get_sms") /\ last'.dev = d =>
              LET rows == SelectLogs(sms_logs, Strip(d))
                  view == last'.views
                  ids == { view[i].id : i \in DOMAIN view }
                  left == { r \in rows : r.id \notin ids }
              IN  /\ Len(view) <= SmsLimit
                  /\ Cardinality(ids) = Len(view)
                  /\ ids \subseteq { r.id : r \in rows }
                  /\ Cardinality(rows) > SmsLimit => Len(view) = SmsLimit
                  /\ Cardinality(rows) <= SmsLimit => left = {}
                  /\ \A r \in left : \A i \in DOMAIN view :
                         ~TextLess(view[i].received_at, r.received_at)]_vars

\* a listing of a device that has more than 500 entries
C22_Witness ==
    /\ last.op = "get_sms"
    /\ Cardinality(SelectLogs(sms_logs, Strip(last.dev))) > SmsLimit
    /\ Len(last.views) = SmsLimit

\* C23: a write of a setting stores the value written whatever the key held, and
\* nothing else of the settings; a read returns the value stored and changes
\* nothing; every step that is no write of a setting (register, delete and the
\* other device operations) leaves the settings as they are
C23_SettingsUpsert ==
    [][/\ Completes("set_sms_forward") =>
              global_settings' =
                  [global_settings EXCEPT
                      !["sms_forward_number"] = last'.views[1].forward_number]
       /\ Completes("set_telegram") =>
              global_settings' =
                  [global_settings EXCEPT
                      !["telegram_bot_token"] = last'.views[1].telegram_bot_token,
                      !["telegram_chat_id"] = last'.views[1].telegram_chat_id]
       /\ Completes("get_sms_forward") =>
              last'.views = << [forward_number |->
                                  global_settings["sms_forward_number"]] >>
       /\ Completes("get_telegram") =>
              last'.views = << [telegram_bot_token |->
                                  global_settings["telegram_bot_token"],
                               telegram_chat_id |->
                                  global_settings["telegram_chat_id"]] >>
       /\ ~(Completes("set_sms_forward") \/ Completes("set_telegram")) =>
              global_settings' = global_settings]_vars

\* a read returns the number written before a device was registered, given
\* commands and deleted
C23_Witness ==
    /\ last.op = "get_sms_forward"
    /\ last.views[1].forward_number = "111"
    /\ global_settings["telegram_bot_token"] = "tok"
    /\ cmdSeq > 0
    /\ devices = {}

\* C24: an execute for an id that no command has (never created, or deleted
\* with its device) is answered 404 and changes no command
C24_AbsentCommandNotFound ==
    [][ (Completes("execute") /\ \A r \in commands : r.id # last'.cid)
        => last'.code = 404 /\ commands' = commands ]_vars

\* C25: a listing of the devices changes no table and no file; where a row has
\* no value in an optional column the listing shows the placeholder ("Unknown
\* Device", "Unknown", "No Number", 0) and the row has no value after it
C25_ListReadOnly ==
    [][Completes("list") =>
          /\ tables' = tables
          /\ <<cmdSeq, smsSeq, formSeq, fileVars>>' = <<cmdSeq, smsSeq, formSeq, fileVars>>
          /\ Len(last'.views) = Cardinality(devices)
          /\ \A i \in DOMAIN last'.views :
                \E r \in devices' :
                    /\ r.device_id = last'.views[i].device_id
                    /\ r.device_name = None => last'.views[i].device_name = "Unknown Device"
                    /\ r.os_version = None => last'.views[i].os_version = "Unknown"
                    /\ r.phone_number = None => last'.views[i].phone_number = "No Number"
                    /\ r.battery_level = None => last'.views[i].battery_level = 0]_vars

\* a listing showed every placeholder for a device whose row has no optional
\* value, next to a device that has them
C25_Witness ==
    /\ last.op = "list"
    /\ Len(last.views) = 2
    /\ \E i \in DOMAIN last.views :
          /\ last.views[i].device_name = "Unknown Device"
          /\ last.views[i].phone_number = "No Number"
          /\ last.views[i].battery_level = 0
          /\ \E r \in devices :
                /\ r.device_id = last.views[i].device_id
                /\ OptionalFields(r) = <<None, None, None, None>>
    /\ \E r \in devices : r.device_name = Some("n1") /\ r.battery_level = Some(87)
    /\ commands # {}

\* C26: with the polls and the executes interleaved among the workers, a command
\* that is executed is not set back to sent
C26_ExecutedNotSentAgain ==
    [][ \A old \in commands : \A new \in commands' :
           (old.status = "executed" /\ new.id = old.id) => new.status # "sent" ]_vars

\* the command of an id is pending
IsPending(id) == \E r \in commands : r.id = id /\ r.status = "pending"

\* the command of an id was carried by a poll response and is sent, or it is
\* executed, or it is deleted
Settled(id) ==
    \A r \in commands :
        r.id = id => \/ r.status = "executed"
                     \/ r.status = "sent" /\ delivered[id] >= 1

\* while the device keeps polling, a pending command is in the end sent with a
\* poll response, unless it is executed or deleted before
EventuallySent == \A id \in 1..MaxCmds : IsPending(id) ~> Settled(id)

\* C27 as stated: while the device keeps polling, every command sent to it is
\* in the end sent with a poll response unless it is executed or deleted before,
\* and a poll that completes leaves no command of its device pending: the first
\* poll to complete after a command was created carries it
C27_FirstCompletedPollReturns ==
    /\ [][Completes("poll") =>
             \A r \in commands :
                 (r.device_id = Strip(last'.dev) /\ r.status = "pending")
                 => \E e \in last'.cmds : e.id = r.id]_vars
    /\ EventuallySent

\* C27, amended: while the device keeps polling, every command sent to it is in
\* the end sent with a poll response unless it is executed or deleted before,
\* and the poll that carries it is the first one that runs its SELECT after the
\* command was created: a SELECT takes every command of its device that is
\* pending, and the response carries what the SELECT took and marks it sent
C27_FirstStartedPollReturns ==
    /\ [][/\ \A w \in Workers :
                (inflight[w].pc = "idle" /\ inflight'[w].pc = "poll_selected")
                => { e.id : e \in inflight'[w].rows } =
                      { r.id : r \in { x \in commands :
                                         /\ x.device_id = Strip(inflight'[w].dev)
                                         /\ x.status = "pending" } }
          /\ Completes("poll") =>
                /\ \E w \in Workers : /\ inflight[w].pc = "poll_selected"
                                      /\ inflight'[w].pc = "idle"
                                      /\ last'.cmds = inflight[w].rows
                /\ \A e \in last'.cmds : \A r \in commands' :
                       r.id = e.id => r.status = "sent"]_vars
    /\ EventuallySent

\* a poll response that carries a command and leaves another one pending: that
\* one was created between the SELECT of the poll and its response
C27_Witness ==
    /\ last.op = "poll"
    /\ last.cmds # {}
    /\ \E r \in commands : r.device_id = Strip(last.dev) /\ r.status = "pending"

\* the requests that are no register and no delete
OtherOps ==
    { "send", "poll", "execute", "log_sms", "submit_form", "list",
      "set_sms_forward", "set_telegram", "get_sms_forward", "get_telegram" }

\* C28: a poll, execute, send, log_sms, submit_form, listing or settings request
\* leaves every device row as it is; so the listing shows a device as offline
\* when 20 seconds or more have passed since last_seen, the time of its last
\* register, however often it has polled since
C28_OnlyRegisterIsSeen ==
    [][/\ \A op \in OtherOps : Completes(op) => devices' = devices
       /\ Completes("list") =>
              \A i \in DOMAIN last'.views :
                  \E r \in devices' :
                      /\ r.device_id = last'.views[i].device_id
                      /\ now - strptime(r.last_seen) >= 20 * TicksPerSec
                             => ~last'.views[i].is_online]_vars

\* a listing shows as offline a device that registered 20 seconds before and
\* has since polled a command that was created after its register
C28_Witness ==
    /\ last.op = "list"
    /\ \E i \in DOMAIN last.views : \E r \in devices : \E c \in commands :
          /\ r.device_id = last.views[i].device_id
          /\ ~last.views[i].is_online
          /\ now - strptime(r.last_seen) = 20 * TicksPerSec
          /\ c.device_id = r.device_id
          /\ TextLess(r.last_seen, c.created_at)
          /\ c.status = "sent"
          /\ delivered[c.id] = 1

\* C29: a poll for d sets the pending commands of d to sent and changes nothing
\* else: the commands of other devices and the sent and executed commands of d
\* stay as they are, no command is added or removed, and no device row, SMS
\* log, form, setting or file changes; a poll that finds nothing pending for d
\* changes no table at all
C29_PollFrame ==
    [][Completes("poll") =>
          LET d == Strip(last'.dev)
              pending == { r \in commands : r.device_id = d /\ r.status = "pending" }
          IN  /\ commands' = (commands \ pending) \cup
                                { [r EXCEPT !.status = "sent"] : r \in pending }
              /\ \A old \in commands \ pending : old \in commands'
              /\ <<devices, sms_logs, form_submissions, global_settings>>' =
                    <<devices, sms_logs, form_submissions, global_settings>>
              /\ <<cmdSeq, smsSeq, formSeq, fileVars>>' = <<cmdSeq, smsSeq, formSeq, fileVars>>
              /\ pending = {} => tables' = tables]_vars

\* a poll that sent a command of its device and left a pending command of the
\* other device as it was, with a device row, an SMS log, a form and a changed
\* setting stored
C29_Witness ==
    /\ last.op = "poll"
    /\ \E e \in last.cmds : \E r \in commands : r.id = e.id /\ r.status = "sent"
    /\ \E r \in commands : r.device_id # Strip(last.dev) /\ r.status = "pending"
    /\ devices # {} /\ sms_logs # {} /\ form_submissions # {}
    /\ global_settings # DefaultSettings

\* C30: no two commands have one id; a send gives its command an id above every
\* id given before, also when the commands of the highest ids were deleted with
\* their device (cmdSeq, the sequence of the table, holds the highest id given
\* and never goes down); so an execute for the id of a deleted command changes
\* no command, whatever was created since
C30_IdsNeverReused ==
    [][/\ \A r1, r2 \in commands' : r1.id = r2.id => r1 = r2
       /\ \A r \in commands' : r.id \in 1..cmdSeq'
       /\ cmdSeq' >= cmdSeq
       /\ Completes("send") =>
              /\ last'.cid > cmdSeq
              /\ \A r \in commands : r.id < last'.cid
              /\ \E r \in commands' \ commands : r.id = last'.cid
       /\ ~Completes("send") => \A r \in commands' : \E old \in commands : old.id = r.id
       /\ (Completes("execute") /\ last'.cid <= cmdSeq
              /\ \A r \in commands : r.id # last'.cid)
          => commands' = commands]_vars

\* an execute for the id of a command that was deleted with its device, made
\* when a command created after the delete is stored: that command has the
\* next id and is not executed
C30_Witness ==
    /\ last.op = "execute"
    /\ last.cid = 1
    /\ cmdSeq = 2
    /\ \E r \in commands : r.id = 2 /\ r.status # "executed"
    /\ \A r \in commands : r.id = 2

\* a step that removes the device row of an id leaves no SMS log, form or
\* command under that id: no request sees the row gone and the rest in place
DeletesTogether ==
    [][\A r \in devices :
          SelectDevice(devices', r.device_id) = {}
          => /\ SelectLogs(sms_logs', r.device_id) = {}
             /\ SelectLogs(form_submissions', r.device_id) = {}
             /\ SelectLogs(commands', r.device_id) = {}]_vars

\* C31: the four deletions of a delete are seen together by every other
\* request, and every command that a poll returns is stored and marked sent
\* when the poll answers: none was removed by a delete while it was pending
C31_DeleteSeenAtOnce ==
    /\ DeletesTogether
    /\ [][Completes("poll") =>
             \A e \in last'.cmds :
                 \E r \in commands' : r.id = e.id /\ r.status = "sent"]_vars

\* what the three listings of device d show in a state: the SMS listing, the
\* form listing and the commands a poll would return
ShownFor(sms, forms, cmds, d) ==
    [sms |-> OrderByReceivedAtDesc(SelectLogs(sms, d)),
     forms |-> OrderBySubmittedAtDesc(SelectLogs(forms, d)),
     pending |-> SelectPending(cmds, d)]

\* the listings of d with nothing stored under d
ShownEmpty ==
    [sms |-> { <<>> }, forms |-> { <<>> }, pending |-> {}]

\* C32: a successful delete of d leaves nothing stored under d; after it the
\* SMS logs, forms and commands under d change only by a logSms, a
\* submitForm or an enqueue for d (or by another delete); and a register
\* that finds no row of d creates one row whose created time is the time of
\* this register and leaves the SMS logs, forms and commands as they are.
\* So the re-registered device lists nothing when nothing was logged or sent
\* for d since the delete, and lists exactly what was logged or sent for d
\* since the delete otherwise.
C32_ReRegisterIsFresh ==
    [][ LET d == Strip(last'.dev)
        IN  /\ (Completes("delete") /\ last'.code = 200)
                => ShownFor(sms_logs', form_submissions', commands', d) = ShownEmpty
            /\ (Completes("register") /\ last'.code = 200 /\ RecordsOf(devices, d) = {})
                => /\ Cardinality(RecordsOf(devices', d)) = 1
                   /\ \A r \in RecordsOf(devices', d) :
                         r.created_at = now_utc_string(now')
                   /\ sms_logs' = sms_logs
                   /\ form_submissions' = form_submissions
                   /\ commands' = commands
                   /\ RecordsOf(sms_logs, d) = {}
                      /\ RecordsOf(form_submissions, d) = {}
                      /\ RecordsOf(commands, d) = {}
                      => ShownFor(sms_logs', form_submissions', commands', d) = ShownEmpty
            /\ \A x \in { << "a" >> } :
                  /\ RecordsOf(sms_logs', x) # RecordsOf(sms_logs, x)
                     => \/ Completes("delete")
                        \/ /\ Completes("log_sms")
                           /\ Strip(last'.dev) = x
                           /\ RecordsOf(sms_logs, x) \subseteq RecordsOf(sms_logs', x)
                  /\ RecordsOf(form_submissions', x) # RecordsOf(form_submissions, x)
                     => \/ Completes("delete")
                        \/ /\ Completes("submit_form")
                           /\ Strip(last'.dev) = x
                           /\ RecordsOf(form_submissions, x) \subseteq RecordsOf(form_submissions', x)
                  /\ RecordsOf(commands', x) # RecordsOf(commands, x)
                     => \/ Completes("delete")
                        \/ /\ Completes("send")
                           /\ Strip(last'.dev) = x
                           /\ RecordsOf(commands, x) \subseteq RecordsOf(commands', x) ]_vars

\* C32 witness: the device was registered again after a delete; the first SMS
\* log is gone with the delete, the second one, logged between the delete
\* and the register, is stored and is older than the device row
C32_Witness ==
    /\ last.op = "register"
    /\ last.code = 200
    /\ smsSeq = 2
    /\ { r.id : r \in sms_logs } = { 2 }
    /\ \E r \in devices : \E m \in sms_logs :
          /\ r.device_id = m.device_id
          /\ TextLess(m.received_at, r.created_at)

\* C33: in the JSON-file variant the register that creates a device's record
\* sets its created timestamp to the time of that call, and a register for a
\* device that has a record leaves its created timestamp, its SMS list and
\* its form list as they are, whatever keys the body carries.
C33_CreatedOnce ==
    [][ \A device_data \in KeyRegisterBodies :
           file_register_device(device_data)
           => LET id == device_data.device_id
              IN  IF id \in DOMAIN data_store.devices
                  THEN /\ data_store'.devices[id].created_at
                             = data_store.devices[id].created_at
                       /\ data_store'.devices[id].sms = data_store.devices[id].sms
                       /\ data_store'.devices[id].forms = data_store.devices[id].forms
                  ELSE data_store'.devices[id].created_at = time_time ]_vars

\* the part of C33 that holds: a register whose body carries none of the
\* keys created_at, sms and forms sets the created timestamp when it
\* creates the record and leaves it and the two lists alone afterwards
CreatedOnceWithoutKeys ==
    [][ \A device_data \in KeyRegisterBodies :
           ( /\ file_register_device(device_data)
             /\ DOMAIN device_data \cap { "created_at", "sms", "forms" } = {} )
           => LET id == device_data.device_id
              IN  IF id \in DOMAIN data_store.devices
                  THEN /\ data_store'.devices[id].created_at
                             = data_store.devices[id].created_at
                       /\ data_store'.devices[id].sms = data_store.devices[id].sms
                       /\ data_store'.devices[id].forms = data_store.devices[id].forms
                  ELSE data_store'.devices[id].created_at = time_time ]_vars

\* the requests of the JSON-file variant that write the store
Mutating ==
    { "file_register", "new_sms", "all_sms", "form_details",
      "admin_sms_forward", "admin_telegram" }

\* a request of the JSON-file variant that is answered 400 or 404 leaves the
\* data store and the data file as they are
ErrorsChangeNothing ==
    [][ (last'.flip # last.flip /\ last'.code \in { 400, 404 })
        => UNCHANGED fileVars ]_vars

\* the data file holds the content of the data store: the server process,
\* started on the file, has this store
FileHoldsStore == data_file.exists /\ json_load(data_file.content) = { data_store }

\* C34: in the JSON-file variant a request answered 400 or 404 leaves the
\* data store and the data file as they are, and after every successful
\* request that writes the store the data file holds the content of the
\* store.
C34_FileFollowsStore ==
    /\ ErrorsChangeNothing
    /\ [][ (last'.flip # last.flip /\ last'.code = 200 /\ last'.op \in Mutating)
            => FileHoldsStore' ]_vars

\* the part of C34 that holds beyond the error answers: while every device
\* id of the store is a text, the data file holds the content of the store
\* after every successful request that writes the store
TextIdsFileHoldsStore ==
    [][ ( /\ last'.flip # last.flip /\ last'.code = 200 /\ last'.op \in Mutating
          /\ \A k \in DOMAIN data_store'.devices : JsonKey(k) = k )
        => FileHoldsStore' ]_vars

====
